---- MODULE Spec2Model ----
(***************************************************************************)
(* A model of the DBF file engine of dbf-orm (src/src/lib/dbffile):        *)
(* open / create / readRecords / appendRecords on one file, with the       *)
(* per-type field codecs computed character by character.                  *)
(*                                                                         *)
(* Text is a sequence of one-character strings.  A JavaScript value is a   *)
(* record [k |-> kind, v |-> payload]; a number is carried as an integer   *)
(* count of 1/Unit, so that decimal text and the value it denotes are      *)
(* distinct things which formatting and parsing convert between.           *)
(***************************************************************************)
EXTENDS Integers, Sequences, FiniteSets, TLC

(***************************************************************************)
(* Bounds of the model.                                                    *)
(***************************************************************************)
\* most records a file holds in the state machine
MaxRecords == 2
\* longest batch handed to one appendRecords call
MaxBatch == 2

(***************************************************************************)
(* Characters and text.                                                    *)
(***************************************************************************)
NUL == "\\0"
EOFByte == "\\x1A"
Digits == <<"0", "1", "2", "3", "4", "5", "6", "7", "8", "9">>

IsDigit(c) == \E i \in 1..10 : Digits[i] = c

DigitVal(c) == (CHOOSE i \in 1..10 : Digits[i] = c) - 1

\* String.prototype.trim sees the space as white space; NUL and the other
\* bytes of the model's alphabet are not white space.
IsSpace(c) == c = " "

RECURSIVE TrimLeft(_)
TrimLeft(s) ==
  IF s # <<>> /\ IsSpace(Head(s)) THEN TrimLeft(Tail(s)) ELSE s

RECURSIVE TrimRight(_)
TrimRight(s) ==
  IF s # <<>> /\ IsSpace(s[Len(s)]) THEN TrimRight(SubSeq(s, 1, Len(s) - 1)) ELSE s

Trim(s) == TrimRight(TrimLeft(s))

\* s.substring(0, n)
Take(s, n) == IF Len(s) <= n THEN s ELSE SubSeq(s, 1, n)

Fill(c, n) == [i \in 1..n |-> c]

\* s.padEnd(n, c) and s.padStart(n, c)
PadEnd(s, n, c) == IF Len(s) >= n THEN s ELSE s \o Fill(c, n - Len(s))

PadStart(s, n, c) == IF Len(s) >= n THEN s ELSE Fill(c, n - Len(s)) \o s

RECURSIVE NatToStr(_)
NatToStr(n) ==
  IF n < 10 THEN <<Digits[n + 1]>> ELSE NatToStr(n \div 10) \o <<Digits[(n % 10) + 1]>>

RECURSIVE DigitsToNat(_)
DigitsToNat(s) ==
  IF s = <<>> THEN 0 ELSE 10 * DigitsToNat(SubSeq(s, 1, Len(s) - 1)) + DigitVal(s[Len(s)])

\* the longest prefix of s made of digits
RECURSIVE DigitRun(_)
DigitRun(s) ==
  IF s # <<>> /\ IsDigit(Head(s)) THEN <<Head(s)>> \o DigitRun(Tail(s)) ELSE <<>>

RECURSIVE Pow10(_)
Pow10(n) == IF n = 0 THEN 1 ELSE 10 * Pow10(n - 1)

Abs(n) == IF n < 0 THEN -n ELSE n

(***************************************************************************)
(* JavaScript values.                                                      *)
(***************************************************************************)
\* a number n stands for n / Unit: four decimal digits are kept
Unit == Pow10(4)

Null == [k |-> "null", v |-> 0]
NaNValue == [k |-> "nan", v |-> 0]
Num(n) == [k |-> "num", v |-> n]
Str(s) == [k |-> "str", v |-> s]
Bool(b) == [k |-> "bool", v |-> b]
\* an instant: a day number (days since 1970-01-01) and an hour of that day, UTC
DateVal(day, hour) == [k |-> "date", v |-> [day |-> day, hour |-> hour]]
\* a Buffer, and the display string "b'\x..'" of a byte sequence
Buf(bytes) == [k |-> "buf", v |-> bytes]
ByteStr(bytes) == [k |-> "bytestr", v |-> bytes]

\* typeof value, with instanceof Date and instanceof Buffer told apart
TypeOf(val) ==
  CASE val.k \in {"num", "nan"} -> "number"
    [] val.k \in {"str", "bytestr"} -> "string"
    [] val.k = "bool" -> "boolean"
    [] val.k = "date" -> "Date"
    [] val.k = "buf" -> "Buffer"
    [] OTHER -> "null"

IsNullish(val) == val.k = "null"

(***************************************************************************)
(* Number formatting and parsing.                                          *)
(***************************************************************************)
\* Math.round(x): the nearest integer, a tie going up
MathRound(n) == (2 * n + Unit) \div (2 * Unit)

FracText(m, places) == PadStart(NatToStr(m), places, "0")

RECURSIVE StripZeros(_)
StripZeros(s) ==
  IF s # <<>> /\ s[Len(s)] = "0" THEN StripZeros(SubSeq(s, 1, Len(s) - 1)) ELSE s

SignText(n) == IF n < 0 THEN <<"-">> ELSE <<>>

\* Number.prototype.toString of n / Unit (no exponent in the model's range)
NumberToString(n) ==
  SignText(n) \o NatToStr(Abs(n) \div Unit)
    \o (IF Abs(n) % Unit = 0 THEN <<>>
        ELSE <<".">> \o StripZeros(FracText(Abs(n) % Unit, 4)))

\* Number.prototype.toFixed(places) of n / Unit: the sign is taken off first
\* and |x| is rounded to the nearest multiple of 10^-places, a tie going up
ToFixed(n, places) ==
  LET m == (2 * Abs(n) * Pow10(places) + Unit) \div (2 * Unit)
  IN SignText(n) \o NatToStr(m \div Pow10(places))
       \o <<".">> \o FracText(m % Pow10(places), places)

\* String(value)
ToStr(val) ==
  CASE val.k = "num" -> NumberToString(val.v)
    [] val.k = "nan" -> <<"N", "a", "N">>
    [] val.k = "bool" -> IF val.v THEN <<"t", "r", "u", "e">> ELSE <<"f", "a", "l", "s", "e">>
    [] val.k = "str" -> val.v
    [] OTHER -> <<>>

\* parseFloat(s): optional sign, digits, optional point and digits, read from
\* the start of s after leading white space; NaN when no digit is found.
\* (The alphabet of the model carries no exponent letter.)
ParseFloat(s0) ==
  LET s == TrimLeft(s0)
      signed == s # <<>> /\ Head(s) \in {"+", "-"}
      neg == s # <<>> /\ Head(s) = "-"
      body == IF signed THEN Tail(s) ELSE s
      ip == DigitRun(body)
      rest == SubSeq(body, Len(ip) + 1, Len(body))
      fp == IF rest # <<>> /\ Head(rest) = "." THEN DigitRun(Tail(rest)) ELSE <<>>
      fp4 == Take(fp, 4)
      mag == DigitsToNat(ip) * Unit + DigitsToNat(fp4) * Pow10(4 - Len(fp4))
  IN IF ip = <<>> /\ fp = <<>> THEN NaNValue
     ELSE Num(IF neg THEN -mag ELSE mag)

\* parseInt(s, 10): optional sign then digits, after leading white space
ParseInt(s0) ==
  LET s == TrimLeft(s0)
      signed == s # <<>> /\ Head(s) \in {"+", "-"}
      neg == s # <<>> /\ Head(s) = "-"
      body == IF signed THEN Tail(s) ELSE s
      ip == DigitRun(body)
  IN IF ip = <<>> THEN NaNValue
     ELSE Num((IF neg THEN -1 ELSE 1) * DigitsToNat(ip))

(***************************************************************************)
(* Calendar arithmetic (the proleptic Gregorian calendar of Date).         *)
(***************************************************************************)
\* days from 1970-01-01 to the civil date y-m-d, for m in 1..12
DaysFromCivil(y, m, d) ==
  LET yy == IF m <= 2 THEN y - 1 ELSE y
      era == yy \div 400
      yoe == yy - era * 400
      mp == (m + 9) % 12
      doy == (153 * mp + 2) \div 5 + d - 1
      doe == yoe * 365 + yoe \div 4 - yoe \div 100 + doy
  IN era * 146097 + doe - 719468

CivilFromDays(z0) ==
  LET z == z0 + 719468
      era == z \div 146097
      doe == z - era * 146097
      yoe == (doe - doe \div 1460 + doe \div 36524 - doe \div 146096) \div 365
      doy == doe - (365 * yoe + yoe \div 4 - yoe \div 100)
      mp == (5 * doy + 2) \div 153
      d == doy - (153 * mp + 2) \div 5 + 1
      m == IF mp < 10 THEN mp + 3 ELSE mp - 9
      y == yoe + era * 400 + (IF m <= 2 THEN 1 ELSE 0)
  IN [y |-> y, m |-> m, d |-> d]

\* Date.UTC(year, monthIndex, day): a year in 0..99 means 1900 + year, a month
\* index outside 0..11 carries into the year and a day outside the month
\* carries into the neighbouring months.
DateUTC(year, monthIndex, day) ==
  LET y0 == IF year >= 0 /\ year <= 99 THEN 1900 + year ELSE year
      y == y0 + monthIndex \div 12
      m == (monthIndex % 12) + 1
  IN DaysFromCivil(y, m, 1) + day - 1

(***************************************************************************)
(* Field descriptors and the per-type codecs.                              *)
(* A descriptor is [name, type, size, dec]; dec = Undefined when the       *)
(* descriptor has no decimalPlaces.                                        *)
(***************************************************************************)
Undefined == 0 - 1

Field(name, type, size, dec) == [name |-> name, type |-> type, size |-> size, dec |-> dec]

\* an encoder or decoder either yields a value or throws
Ok(x) == [ok |-> TRUE, val |-> x]
Thrown(msg) == [ok |-> FALSE, val |-> msg]

\* the calendar date a Date shows through getFullYear/getMonth/getDate in a
\* process whose local time is tz hours ahead of UTC
LocalCivil(date, tz) == CivilFromDays(date.day + (date.hour + tz) \div 24)

\* String(year).padStart(4,'0') + String(month).padStart(2,'0') + String(day).padStart(2,'0')
DateText(civil) ==
  PadStart(NatToStr(civil.y), 4, "0") \o PadStart(NatToStr(civil.m), 2, "0")
    \o PadStart(NatToStr(civil.d), 2, "0")

\* the text a non-null number is written as in an N field
NumericText(field, val) ==
  IF val.k # "num" THEN ToStr(val)
  ELSE IF field.dec # Undefined /\ field.dec > 0 THEN ToFixed(val.v, field.dec)
  ELSE NumberToString(MathRound(val.v) * Unit)

\* the text a non-null number is written as in an F field
FloatText(field, val) == ToStr(val)

\* bytes.copy(buffer, offset) of text into a zero-filled window of the field's
\* size: what does not fit is overwritten by the next field or falls off the
\* end of the record buffer
CopyInto(text, size) == Take(PadEnd(text, size, NUL), size)

\* the switch of appendRecordsToDBF: the window one field of one record gets
EncodeField(field, val, tz) ==
  CASE field.type = "C" ->
         Ok(Take(PadEnd(IF IsNullish(val) THEN <<>> ELSE ToStr(val), field.size, " "), field.size))
    [] field.type = "N" ->
         IF IsNullish(val) THEN Ok(Fill(" ", field.size))
         ELSE Ok(Take(PadStart(NumericText(field, val), field.size, " "), field.size))
    [] field.type = "F" ->
         IF IsNullish(val) THEN Ok(Fill(" ", field.size))
         ELSE Ok(Take(PadStart(FloatText(field, val), field.size, " "), field.size))
    [] field.type = "L" ->
         Ok(CopyInto(<<IF val = Bool(TRUE) THEN "T" ELSE IF val = Bool(FALSE) THEN "F" ELSE " ">>,
                     field.size))
    [] field.type = "D" ->
         IF val.k = "date" THEN Ok(CopyInto(DateText(LocalCivil(val.v, tz)), field.size))
         ELSE Ok(Fill(" ", field.size))
    [] field.type = "0" ->
         IF val.k \in {"buf", "bytestr"} THEN Ok(CopyInto(val.v, field.size))
         ELSE Ok(Fill(NUL, field.size))
    [] OTHER -> Thrown("unsupported-type")

\* String.fromCharCode(byte).toUpperCase() for the letters the decoder tests
ToUpper(c) ==
  CASE c = "t" -> "T" [] c = "y" -> "Y" [] c = "f" -> "F" [] c = "n" -> "N" [] OTHER -> c

\* a decoder that hands on what parseFloat returned
DecodeNumberUnchecked(win) == ParseFloat(Trim(win))

\* case 'N' and case 'F' of the read switch
DecodeNumber(win) ==
  LET value == ParseFloat(Trim(win))
  IN IF value.k = "nan" THEN Null ELSE value

DecodeLogical(win) ==
  LET c == ToUpper(IF win = <<>> THEN NUL ELSE win[1])
  IN IF c = "T" \/ c = "Y" THEN Bool(TRUE)
     ELSE IF c = "F" \/ c = "N" THEN Bool(FALSE)
     ELSE Null

\* createDate(year, month, day) of utils.js
CreateDate(year, month, day) == DateVal(DateUTC(year, month - 1, day), 0)

DecodeDate(win) ==
  LET str == Trim(win)
  IN IF Len(str) >= 8
     THEN LET year == ParseInt(SubSeq(str, 1, 4))
              month == ParseInt(SubSeq(str, 5, 6))
              day == ParseInt(SubSeq(str, 7, 8))
          IN IF year.k # "nan" /\ month.k # "nan" /\ day.k # "nan"
             THEN CreateDate(year.v, month.v, day.v)
             ELSE Null
     ELSE Null

\* the switch of readRecordsFromDBF: the value of one field window
DecodeField(field, win, readMode) ==
  CASE field.type = "C" -> Ok(Str(Trim(win)))
    [] field.type = "N" -> Ok(DecodeNumber(win))
    [] field.type = "F" -> Ok(DecodeNumber(win))
    [] field.type = "L" -> Ok(DecodeLogical(win))
    [] field.type = "D" -> Ok(DecodeDate(win))
    [] field.type = "0" -> Ok(ByteStr(win))
    [] OTHER -> IF readMode = "loose" THEN Ok(Null) ELSE Thrown("unsupported-type")

\* one case of validateRecord: whether a field accepts a value
ValidValue(field, val) ==
  \/ IsNullish(val)
  \/ CASE field.type = "C" -> TypeOf(val) \in {"string", "number", "boolean"}
       [] field.type \in {"N", "F"} -> TypeOf(val) = "number"
       [] field.type = "L" -> TypeOf(val) = "boolean"
       [] field.type = "D" -> TypeOf(val) = "Date"
       [] OTHER -> TRUE

(***************************************************************************)
(* The state.                                                              *)
(*   disk    the file at the path and its sibling memo files               *)
(*   handles the DBFFile objects the caller holds                          *)
(*   last    the most recent call: its arguments and what it returned      *)
(*   hist    what create was given and what has been appended since        *)
(*   tz      the offset of the process's local time from UTC, in hours     *)
(*   cx      a field, a value and a window put through the codecs alone    *)
(*   orm     the DbfORM instance: its options and its field descriptors    *)
(***************************************************************************)
VARIABLES disk, handles, last, hist, tz, cx, orm

vars == <<disk, handles, last, hist, tz, cx, orm>>

Handles == {"A", "B"}

\* SupportedFileVersions of utils.js: 0x03, 0x83, 0x8b, 0x30, 0xf5
SupportedFileVersions == {3, 131, 139, 48, 245}

\* a version check that lets every version byte through
isValidFileVersionAny(version) == TRUE

\* isValidFileVersion(version) of utils.js
isValidFileVersion(version) == version \in SupportedFileVersions

\* the versions whose memo file openDBF looks for: 0x83 and 0x8b
MemoVersions == {131, 139}

\* the fileVersion values normaliseCreateOptions lets through
CreateFileVersions == {3, 131, 139, 48}

\* FieldTypes of field-descriptor.js
FieldTypes == {"C", "N", "F", "Y", "L", "D", "I", "M", "T", "B", "0"}

NoFile == [exists |-> FALSE]

Closed == [open |-> FALSE]

Idle == [op |-> "none", h |-> "A", ok |-> TRUE, err |-> "", n |-> 0,
         batch |-> <<>>, out |-> <<>>, touched |-> FALSE, mode |-> "undefined",
         opts |-> [given |-> FALSE], fds |-> {}]

NoCodec == [phase |-> "off"]

(***************************************************************************)
(* The encoding option: undefined, a string, a number or null (told by k    *)
(* alone), or an object, which has k, default and rest: its default        *)
(* property missing, a string or a number; its other properties none, all  *)
(* strings or one a number.                                                *)
(***************************************************************************)
Enc(k) == [k |-> k]

\* a check that takes every object, and null, for an encoding
ValidEncodingAnyObject(encoding) ==
  encoding.k \in {"undefined", "string", "object", "null"}

\* the encoding checks of normaliseOpenOptions and normaliseCreateOptions
ValidEncoding(encoding) ==
  \/ encoding.k = "undefined"
  \/ encoding.k = "string"
  \/ encoding.k = "object" /\ encoding.default = "string" /\ encoding.rest # "number"

Names(fields) == {fields[i].name : i \in 1..Len(fields)}

RECURSIVE SumSizes(_)
SumSizes(fields) ==
  IF fields = <<>> THEN 0 ELSE Head(fields).size + SumSizes(Tail(fields))

\* a record slot of the file: the delete marker and one window per descriptor
Slot(mark, wins) == [mark |-> mark, wins |-> wins]

ZeroSlot(descs) == Slot(NUL, [i \in 1..Len(descs) |-> Fill(NUL, descs[i].size)])

\* the length of the file in bytes
FileLength(d) == d.headerLength + Len(d.slots) * d.recordLength + Len(d.tail)

(***************************************************************************)
(* Positioned writes.  Every write of the engine lands on a record         *)
(* boundary p (the offset headerLength + p * recordLength): a whole record *)
(* or the single end-of-file byte.  Writing past the end leaves a hole of  *)
(* zero bytes, as the file system does.                                    *)
(***************************************************************************)
\* the slots once the file is extended with zero bytes up to boundary p
PadTo(d, p) ==
  IF p <= Len(d.slots) THEN d.slots
  ELSE LET first == IF d.tail = <<>> THEN ZeroSlot(d.descs)
                    ELSE Slot(d.tail[1], ZeroSlot(d.descs).wins)
       IN d.slots \o [i \in 1..(p - Len(d.slots)) |->
                        IF i = 1 THEN first ELSE ZeroSlot(d.descs)]

WriteSlot(d, p, slot) ==
  IF p < Len(d.slots) THEN [d EXCEPT !.slots[p + 1] = slot]
  ELSE [d EXCEPT !.slots = Append(PadTo(d, p), slot), !.tail = <<>>]

WriteByte(d, p, b) ==
  IF d.recordLength = 1 THEN WriteSlot(d, p, Slot(b, <<>>))
  ELSE IF p < Len(d.slots) THEN [d EXCEPT !.slots[p + 1].mark = b]
  ELSE [d EXCEPT !.slots = PadTo(d, p), !.tail = <<b>>]

\* read(fd, buffer, 0, recordLength, pos) at boundary p: the bytes the file
\* has there replace the start of the buffer, the rest of the buffer keeps
\* what the previous read left in it
ReadSlot(d, p, buffer) ==
  IF p < Len(d.slots) THEN d.slots[p + 1]
  ELSE IF p = Len(d.slots) /\ d.tail # <<>> THEN [buffer EXCEPT !.mark = d.tail[1]]
  ELSE buffer

(***************************************************************************)
(* Fixed-width integers of the header.                                     *)
(***************************************************************************)
\* what readInt16LE gives back for the two bytes holding x
AsInt16(x) == LET u == x % 65536 IN IF u >= 32768 THEN u - 65536 ELSE u

\* Buffer.writeInt16LE and writeUInt8 throw a RangeError for a value outside
\* the width.  (The 32-bit record count never leaves its width here: the
\* state machine keeps it within MaxRecords.)
FitsInt16(x) == x >= -32768 /\ x <= 32767
FitsUInt8(x) == x >= 0 /\ x <= 255

\* a validation that checks the name, the type and the least size alone
validateFieldDescriptorNoLimits(field, fileVersion) ==
  /\ Len(field.name) >= 1
  /\ Len(field.name) <= 10
  /\ field.type \in FieldTypes
  /\ field.size >= 1

(***************************************************************************)
(* create: descriptor validation and the header block.                     *)
(***************************************************************************)
\* validateFieldDescriptor(field, fileVersion) does not throw
validateFieldDescriptor(field, fileVersion) ==
  LET memoSize == IF fileVersion = 48 THEN 4 ELSE 10
      maxDecimals == IF fileVersion = 139 THEN 18 ELSE 15
  IN /\ Len(field.name) >= 1
     /\ Len(field.name) <= 10
     /\ field.type \in FieldTypes
     /\ field.size >= 1
     /\ ~(field.type = "C" /\ field.size > 255)
     /\ ~(field.type = "N" /\ field.size > 20)
     /\ ~(field.type = "F" /\ field.size > 20)
     /\ ~(field.type = "Y" /\ field.size # 8)
     /\ ~(field.type = "L" /\ field.size # 1)
     /\ ~(field.type = "D" /\ field.size # 8)
     /\ ~(field.type = "M" /\ field.size # memoSize)
     /\ ~(field.type = "T" /\ field.size # 8)
     /\ ~(field.type = "B" /\ field.size # 8)
     /\ \/ field.type = "0"
        \/ ~(field.dec # Undefined /\ field.dec # 0 /\ field.dec > maxDecimals)

\* a header length that leaves out the terminator byte
HeaderLengthNoTerminator(fields) == 32 + (32 * Len(fields))

\* let headerLength = 32 + (32 * fields.length) + 1
HeaderLengthOf(fields) == 32 + (32 * Len(fields)) + 1

\* let recordLength = 1; for (const field of fields) recordLength += field.size
RecordLengthOf(fields) == 1 + SumSizes(fields)

\* the 32 bytes of one descriptor: the name padded with NUL to 11 bytes, the
\* type character, the size byte and the decimals byte
DescriptorBytes(field) ==
  [name |-> Take(PadEnd(field.name, 11, NUL), 11),
   type |-> field.type,
   size |-> field.size % 256,
   dec |-> IF field.dec = Undefined THEN 0 ELSE field.dec % 256]

\* every write into the header buffer stays within its width
HeaderWritable(fields) ==
  /\ FitsInt16(HeaderLengthOf(fields))
  /\ FitsInt16(RecordLengthOf(fields))
  /\ \A i \in 1..Len(fields) :
       /\ FitsUInt8(fields[i].size)
       /\ fields[i].dec # Undefined => FitsUInt8(fields[i].dec)

\* the file createDBF writes: the header block, then the end-of-file byte at
\* offset headerLength
NewFile(fields, fileVersion, memo) ==
  LET blank == [exists |-> TRUE, version |-> fileVersion, stamp |-> "now", count |-> 0,
                headerLength |-> AsInt16(HeaderLengthOf(fields)),
                recordLength |-> AsInt16(RecordLengthOf(fields)),
                descs |-> [i \in 1..Len(fields) |-> DescriptorBytes(fields[i])],
                slots |-> <<>>, tail |-> <<>>, memo |-> memo]
  IN WriteByte(blank, 0, EOFByte)

(***************************************************************************)
(* open: the header and the descriptor table.                              *)
(***************************************************************************)
\* the name bytes up to the first NUL
RECURSIVE UntilNul(_)
UntilNul(s) ==
  IF s = <<>> \/ Head(s) = NUL THEN <<>> ELSE <<Head(s)>> \o UntilNul(Tail(s))

ParseDescriptor(desc) ==
  Field(Trim(UntilNul(desc.name)), desc.type, desc.size,
        IF desc.dec = 0 THEN Undefined ELSE desc.dec)

\* the loop over the descriptor buffer: it ends at the end of the buffer, at a
\* 0x0D byte or at a descriptor whose name starts with NUL
RECURSIVE ParseFields(_, _, _)
ParseFields(descs, offset, bufferLength) ==
  IF descs = <<>> \/ ~(offset < bufferLength) THEN <<>>
  ELSE IF Head(descs).name[1] \in {NUL, "\\r"} THEN <<>>
  ELSE <<ParseDescriptor(Head(descs))>> \o ParseFields(Tail(descs), offset + 32, bufferLength)

\* a search for the memo file that tries '.dbt' alone
FindMemoLowerOnly(memo) ==
  IF ".dbt" \in memo THEN ".dbt" ELSE "undefined"

\* the memo file openDBF finds: '.dbt' is tried before '.DBT'
FindMemo(memo) ==
  IF ".dbt" \in memo THEN ".dbt" ELSE IF ".DBT" \in memo THEN ".DBT" ELSE "undefined"

\* openDBF(path, options) on the file d
openDBF(d, options) ==
  IF ~d.exists THEN Thrown("io-failure")
  ELSE IF options.readMode # "loose" /\ ~isValidFileVersion(d.version)
  THEN Thrown("version-unsupported")
  ELSE LET memoPath == IF d.version \in MemoVersions THEN FindMemo(d.memo) ELSE "undefined"
       IN IF d.version \in MemoVersions /\ options.readMode # "loose" /\ memoPath = "undefined"
          THEN Thrown("missing-side-file")
          ELSE IF d.headerLength - 32 - 1 < 0
          THEN Thrown("descriptor-malformed")
          ELSE Ok([open |-> TRUE,
                   recordCount |-> d.count,
                   stamp |-> d.stamp,
                   fields |-> ParseFields(d.descs, 0, d.headerLength - 32 - 1),
                   readMode |-> options.readMode,
                   encoding |-> options.encoding,
                   includeDeleted |-> options.includeDeleted,
                   recordsRead |-> 0,
                   headerLength |-> d.headerLength,
                   recordLength |-> d.recordLength,
                   memoPath |-> memoPath,
                   version |-> d.version])

(***************************************************************************)
(* readRecords.                                                            *)
(***************************************************************************)
\* the value record[name] ends with: the fields are decoded in order and a
\* later field of the same name overwrites an earlier one
LastNamed(fields, name) ==
  CHOOSE i \in 1..Len(fields) :
    /\ fields[i].name = name
    /\ \A j \in (i + 1)..Len(fields) : fields[j].name # name

\* a reader that takes null for a field it cannot decode, in every mode
DecodeRecordNullOnError(hd, buffer) ==
  Ok([name \in Names(hd.fields) |->
        DecodeField(hd.fields[LastNamed(hd.fields, name)],
                    buffer.wins[LastNamed(hd.fields, name)], "loose").val])

\* the record parsed from the buffer, or the error the decoder throws
DecodeRecord(hd, buffer) ==
  LET decoded == [i \in 1..Len(hd.fields) |->
                    DecodeField(hd.fields[i], buffer.wins[i], hd.readMode)]
  IN IF \E i \in 1..Len(hd.fields) : ~decoded[i].ok THEN Thrown("unsupported-type")
     ELSE Ok([name \in Names(hd.fields) |-> decoded[LastNamed(hd.fields, name)].val])

\* the while loop of readRecordsFromDBF from position recordsRead on; out
\* collects what is pushed to records, each entry with the position it came
\* from.  The loop ends with the records returned or with an error thrown,
\* and in both cases with the cursor where the loop left it.
\* a reader that takes no marker for a deletion
IsDeletedNever(buffer) == FALSE

\* buffer[0] === 0x2A
IsDeleted(buffer) == buffer.mark = "*"

RECURSIVE ReadLoop(_, _, _, _, _, _)
ReadLoop(hd, d, recordsToRead, recordsRead, buffer, out) ==
  IF ~(recordsToRead > 0)
  THEN [ok |-> TRUE, out |-> out, recordsRead |-> recordsRead, touched |-> TRUE]
  ELSE LET filled == ReadSlot(d, recordsRead, buffer)
           deleted == IsDeleted(filled)
       IN IF deleted /\ ~hd.includeDeleted
          THEN ReadLoop(hd, d, recordsToRead - 1, recordsRead + 1, filled, out)
          ELSE LET record == DecodeRecord(hd, filled)
               IN IF ~record.ok
                  THEN [ok |-> FALSE, out |-> <<>>, recordsRead |-> recordsRead,
                        touched |-> TRUE]
                  ELSE ReadLoop(hd, d, recordsToRead - 1, recordsRead + 1, filled,
                                Append(out, [pos |-> recordsRead, deleted |-> deleted,
                                             rec |-> record.val]))

Min(a, b) == IF a <= b THEN a ELSE b

\* a reader that clamps maxCount to the record count, whatever it has read
ClampCountFromStart(hd, maxCount) == Min(maxCount, hd.recordCount)

\* a reader that trusts maxCount and does not clamp it
ClampCountUnclamped(hd, maxCount) == maxCount

\* the clamp of readRecordsFromDBF: Math.min(maxCount, recordCount - _recordsRead)
ClampCount(hd, maxCount) == Min(maxCount, hd.recordCount - hd.recordsRead)

\* readRecordsFromDBF(dbf, maxCount): touched tells whether the file was opened
readRecordsFromDBF(hd, d, maxCount) ==
  IF ClampCount(hd, maxCount) <= 0
  THEN [ok |-> TRUE, out |-> <<>>, recordsRead |-> hd.recordsRead, touched |-> FALSE]
  ELSE IF ~d.exists
  THEN [ok |-> FALSE, out |-> <<>>, recordsRead |-> hd.recordsRead, touched |-> FALSE]
  ELSE ReadLoop(hd, d, ClampCount(hd, maxCount), hd.recordsRead, ZeroSlot(d.descs), <<>>)

(***************************************************************************)
(* appendRecords.                                                          *)
(***************************************************************************)
\* validateRecord(fields, record) does not throw
validateRecord(fields, record) ==
  \A i \in 1..Len(fields) : ValidValue(fields[i], record[fields[i].name])

\* a writer that validates the first record of the batch only
ValidBatchFirstOnly(fields, records) ==
  records = <<>> \/ validateRecord(fields, records[1])

\* every record of the batch passes validateRecord
ValidBatch(fields, records) ==
  \A r \in 1..Len(records) : validateRecord(fields, records[r])

\* the buffer of one record: zero-filled, the marker set to a space, then one
\* window per field of the handle
EncodeRecord(hd, d, record, zone) ==
  LET encoded == [i \in 1..Len(hd.fields) |->
                    EncodeField(hd.fields[i], record[hd.fields[i].name], zone)]
  IN IF \E i \in 1..Len(hd.fields) : ~encoded[i].ok THEN Thrown("unsupported-type")
     ELSE Ok(Slot(" ", [i \in 1..Len(d.descs) |->
                          IF i <= Len(hd.fields) THEN encoded[i].val
                          ELSE Fill(NUL, d.descs[i].size)]))

\* a writer that starts at the record the handle would read next
AppendPositionAtCursor(hd) == hd.recordsRead

\* the file position the batch is written from, as a record boundary:
\* dbf._headerLength + dbf.recordCount * dbf._recordLength
AppendPosition(hd) == hd.recordCount

\* the loop writing the records of the batch one after the other
RECURSIVE WriteRecords(_, _, _, _, _)
WriteRecords(hd, d, records, position, zone) ==
  IF records = <<>> THEN Ok(d)
  ELSE LET buffer == EncodeRecord(hd, d, Head(records), zone)
       IN IF ~buffer.ok THEN [ok |-> FALSE, val |-> d]
          ELSE WriteRecords(hd, WriteSlot(d, position, buffer.val), Tail(records),
                            position + 1, zone)

\* a writer that adds the batch to the count it finds in the header
WriteTrailerFromHeader(hd, d, added) ==
  WriteByte([d EXCEPT !.count = d.count + added, !.stamp = "now"],
            AppendPosition(hd) + added, EOFByte)

\* the header rewrite that follows the records: the record count at offset 4,
\* the date at offset 1, then the end-of-file byte after the last record
WriteTrailer(hd, d, added) ==
  WriteByte([d EXCEPT !.count = hd.recordCount + added, !.stamp = "now"],
            AppendPosition(hd) + added, EOFByte)

\* a writer that counts a batch as one record
AppendedOnce(hd, added) ==
  [hd EXCEPT !.recordCount = hd.recordCount + 1, !.stamp = "now"]

\* the handle once the batch is written
Appended(hd, added) ==
  [hd EXCEPT !.recordCount = hd.recordCount + added, !.stamp = "now"]

\* appendRecordsToDBF(dbf, records): the file and the handle it leaves
appendRecordsToDBF(hd, d, records, zone) ==
  IF ~ValidBatch(hd.fields, records)
  THEN [ok |-> FALSE, err |-> "record-invalid", disk |-> d, handle |-> hd]
  ELSE IF ~d.exists
  THEN [ok |-> FALSE, err |-> "io-failure", disk |-> d, handle |-> hd]
  ELSE LET written == WriteRecords(hd, d, records, AppendPosition(hd), zone)
       IN IF ~written.ok
          THEN [ok |-> FALSE, err |-> "unsupported-type", disk |-> written.val, handle |-> hd]
          ELSE [ok |-> TRUE, err |-> "",
                disk |-> WriteTrailer(hd, written.val, Len(records)),
                handle |-> Appended(hd, Len(records))]

(***************************************************************************)
(* The inputs the model draws from.                                        *)
(***************************************************************************)
nID == <<"I", "D">>
nNAME == <<"N", "A", "M", "E">>
nACTIVE == <<"A", "C", "T", "I", "V", "E">>
nAMOUNT == <<"A", "M", "O", "U", "N", "T">>
nRATE == <<"R", "A", "T", "E">>
nDAY == <<"D", "A", "Y">>
nFLAGS == <<"_", "N", "u", "l", "l", "F", "l", "a", "g", "s">>
nREF == <<"R", "E", "F">>

\* the descriptor lists create accepts
GoodSchemas ==
  { <<Field(nID, "N", 3, 0), Field(nNAME, "C", 2, Undefined), Field(nACTIVE, "L", 1, Undefined)>>,
    <<Field(nAMOUNT, "N", 5, 1), Field(nRATE, "F", 4, 2)>>,
    <<Field(nDAY, "D", 8, Undefined), Field(nFLAGS, "0", 1, Undefined)>>,
    <<Field(nID, "N", 3, Undefined), Field(nREF, "I", 4, Undefined)>>,
    <<>> }

\* descriptor lists create refuses: a text field of 256 bytes, a logical field
\* of 2, a record longer than 16 bits hold, a size that is no byte
BadSchemas ==
  { <<Field(nNAME, "C", 256, Undefined)>>,
    <<Field(nACTIVE, "L", 2, Undefined)>>,
    <<Field(nREF, "I", 40000, Undefined)>>,
    <<Field(nFLAGS, "0", 300, Undefined)>> }

\* the calls of create: every schema without a fileVersion option, and the
\* options 0x03, 0x83 and 7 (which normaliseCreateOptions refuses)
CreateInputs ==
  {<<fields, [fileVersion |-> Undefined, encoding |-> Enc("undefined")]>> :
     fields \in GoodSchemas \cup BadSchemas}
  \cup {<<fields, [fileVersion |-> v, encoding |-> Enc("undefined")]>> :
          fields \in {<<Field(nNAME, "C", 2, Undefined)>>}, v \in {3, 131, 7}}

\* the options of open
OpenOptions ==
  [readMode : {"undefined", "strict", "loose"}, includeDeleted : BOOLEAN,
   encoding : {Enc("undefined")}]

\* the maxCount values readRecords is called with
MaxCounts == {0 - 1, 0, 1, 100}

\* the offsets of local time from UTC the process may run under
TZOffsets == {0 - 5, 0}

\* 2024-02-29 and 2024-03-01 as day numbers
Day0229 == DaysFromCivil(2024, 2, 29)
Day0301 == DaysFromCivil(2024, 3, 1)

\* the value row r of the sample data holds for a field: row 1 a plain value,
\* row 2 null or a value wider than the field, row 3 a value of the wrong kind
\* for the typed fields; a field of a type without codec gets a number in
\* row 1 and null otherwise
SampleValue(field, r) ==
  CASE field.type = "C" ->
         (CASE r = 1 -> Str(<<"A", "l">>) [] r = 2 -> Null [] OTHER -> DateVal(Day0229, 0))
    [] field.type = "N" ->
         (CASE r = 1 -> Num(1 * Unit) [] r = 2 -> Num(1234 * Unit + Unit \div 2)
            [] OTHER -> Str(<<"1">>))
    [] field.type = "F" ->
         (CASE r = 1 -> Num(Unit \div 4) [] r = 2 -> Num(0 - (12 * Unit + Unit \div 4))
            [] OTHER -> Bool(TRUE))
    [] field.type = "L" ->
         (CASE r = 1 -> Bool(TRUE) [] r = 2 -> Null [] OTHER -> Num(Unit))
    [] field.type = "D" ->
         (CASE r = 1 -> DateVal(Day0229, 0) [] r = 2 -> DateVal(Day0301, 12)
            [] OTHER -> Str(<<"2", "0", "2", "4">>))
    [] field.type = "0" ->
         (CASE r = 1 -> Buf(<<"\\x01">>) [] r = 2 -> ByteStr(<<"\\x02", "\\x03">>)
            [] OTHER -> Num(Unit))
    [] OTHER -> IF r = 1 THEN Num(7 * Unit) ELSE Null

SampleRecord(fields, r) ==
  [name \in Names(fields) |-> SampleValue(fields[LastNamed(fields, name)], r)]

\* the records appendRecords is handed for a handle with these fields: the
\* three rows of sample data and the record whose fields are all null
RecordsFor(fields) ==
  {SampleRecord(fields, r) : r \in 1..3} \cup {[name \in Names(fields) |-> Null]}

\* the sequences of at most n elements of S
BatchesOf(S, n) == UNION {[1..k -> S] : k \in 0..n}

(***************************************************************************)
(* Files that exist before the program runs (written by other tools).      *)
(***************************************************************************)
ForeignFields ==
  <<Field(nID, "N", 3, Undefined), Field(nNAME, "C", 2, Undefined), Field(nACTIVE, "L", 1, Undefined)>>

ForeignSlots ==
  { <<>>,
    <<Slot(" ", <<<<" ", " ", "1">>, <<"A", "l">>, <<"T">>>>)>>,
    <<Slot("*", <<<<" ", " ", "1">>, <<"A", "l">>, <<"y">>>>),
      Slot(" ", <<<<" ", " ", " ">>, <<" ", " ">>, <<"?">>>>)>>,
    <<Slot(" ", <<<<"1", ".", "5">>, <<"B", " ">>, <<"n">>>>),
      Slot("*", <<<<"-", "x", "1">>, <<" ", "o">>, <<" ">>>>)>> }

\* 0x03 and 0xf5 are supported, 0x83 wants a memo file, 0x02 is not supported
ForeignVersions == {3, 245, 131, 2}

\* a table with a field of a type the engine has no codec for, holding a
\* deleted record and an active one
LegacyFields == <<Field(nID, "N", 3, Undefined), Field(nREF, "I", 4, Undefined)>>

LegacySlots ==
  <<Slot("*", <<<<" ", " ", "1">>, <<"\\x01", NUL, NUL, NUL>>>>),
    Slot(" ", <<<<" ", " ", "2">>, <<"\\x02", NUL, NUL, NUL>>>>)>>

ForeignFileOf(fields, version, slots, count, headerLength, memo) ==
  [exists |-> TRUE, version |-> version, stamp |-> "old", count |-> count,
   headerLength |-> headerLength,
   recordLength |-> RecordLengthOf(fields),
   descs |-> [i \in 1..Len(fields) |-> DescriptorBytes(fields[i])],
   slots |-> slots, tail |-> <<EOFByte>>, memo |-> memo]

ForeignFile(version, slots, count, headerLength, memo) ==
  ForeignFileOf(ForeignFields, version, slots, count, headerLength, memo)

\* well-formed files of version 0x03 with records active and deleted, one
\* well-formed file of each other version, and files whose header disagrees
\* with their content: a record count one above or one below the records
\* present, a record count of -1 (the field is read as a signed integer), a
\* header length of 0; and the table with the unsupported field
ForeignFiles ==
  {ForeignFile(3, s, Len(s), HeaderLengthOf(ForeignFields), {}) : s \in ForeignSlots}
  \cup {ForeignFile(v, s, Len(s), HeaderLengthOf(ForeignFields), {}) :
          v \in ForeignVersions, s \in {x \in ForeignSlots : Len(x) = 1}}
  \cup {ForeignFile(3, s, Len(s) + 1, HeaderLengthOf(ForeignFields), {}) :
          s \in {x \in ForeignSlots : Len(x) = 1}}
  \cup {ForeignFile(3, s, Len(s) - 1, HeaderLengthOf(ForeignFields), {}) :
          s \in {x \in ForeignSlots : Len(x) = 2}}
  \cup {ForeignFile(3, s, 0 - 1, HeaderLengthOf(ForeignFields), {}) :
          s \in {x \in ForeignSlots : Len(x) = 1}}
  \cup {ForeignFile(v, <<>>, 0, 0, {}) : v \in {3, 2}}
  \cup {ForeignFileOf(LegacyFields, 3, LegacySlots, Len(LegacySlots),
                       HeaderLengthOf(LegacyFields), {})}

(***************************************************************************)
(* The state machine.                                                      *)
(***************************************************************************)
Init ==
  /\ disk \in {NoFile} \cup ForeignFiles
  /\ handles = [h \in Handles |-> Closed]
  /\ last = Idle
  /\ hist = [origin |-> IF disk = NoFile THEN "none" ELSE "foreign",
             fields |-> <<>>, appended |-> <<>>]
  /\ tz \in TZOffsets
  /\ cx = NoCodec
  /\ orm = [made |-> FALSE]

\* a block that leaves its descriptor to the caller
TryWithoutFinally(held, opened) ==
  IF opened THEN held \cup {3 + Cardinality(held)} ELSE held

\* let fd = 0; try { fd = await open(path, flags); ... }
\* finally { if (fd) await close(fd); }: the descriptors the process holds
\* when the block is left, by return or by throw, the file having been
\* opened or not.  open() returns the lowest number the process does not
\* hold, its standard streams holding 0, 1 and 2.
TryFinally(held, opened) ==
  LET fd == CHOOSE x \in 3..(3 + Cardinality(held)) :
              x \notin held /\ \A g \in 3..(x - 1) : g \in held
  IN IF opened THEN (held \cup {fd}) \ {x \in {fd} : x # 0} ELSE held

\* the record of a call that has completed; fds are the descriptors it leaves
\* open
Call(op, h, ok, err, n, batch, out, touched) ==
  [op |-> op, h |-> h, ok |-> ok, err |-> err, n |-> n, batch |-> batch,
   out |-> out, touched |-> touched, mode |-> "undefined", opts |-> [given |-> FALSE],
   fds |-> TryFinally(last.fds, touched)]

\* normaliseCreateOptions: the options create works with, when it accepts
\* what it was given
normaliseCreateOptions(options) ==
  IF options.fileVersion # Undefined /\ options.fileVersion \notin CreateFileVersions
  THEN Thrown("option-invalid")
  ELSE IF ~ValidEncoding(options.encoding) THEN Thrown("option-invalid")
  ELSE Ok([fileVersion |-> IF options.fileVersion = Undefined THEN 3 ELSE options.fileVersion,
           encoding |-> IF options.encoding.k = "undefined" THEN Enc("string")
                        ELSE options.encoding])

\* createDBF(path, fields, opts) on the file d.  Nothing is written unless the
\* options and every descriptor are accepted and the header block can be
\* built; the file is then created or truncated, and opened in strict mode.
createDBF(d, fields, opts) ==
  LET options == normaliseCreateOptions(opts)
      descriptorsOk == \A i \in 1..Len(fields) :
                         validateFieldDescriptor(fields[i], options.val.fileVersion)
      memo == IF d.exists THEN d.memo ELSE {}
      file == NewFile(fields, options.val.fileVersion, memo)
      opened == openDBF(file, [readMode |-> "strict", includeDeleted |-> FALSE,
                               encoding |-> options.val.encoding])
  IN IF ~options.ok \/ ~descriptorsOk \/ ~HeaderWritable(fields)
     THEN [ok |-> FALSE,
           val |-> IF ~options.ok THEN "option-invalid"
                   ELSE IF ~descriptorsOk THEN "descriptor-invalid" ELSE "range",
           disk |-> d, written |-> FALSE]
     ELSE [ok |-> opened.ok, val |-> opened.val, disk |-> file, written |-> TRUE]

\* DBFFile.create(path, fields, options): the file is opened to be written
\* and closed, then opened again by openDBF.  Handles of the file that was
\* overwritten are not used again.
CreateDBF(h, fields, opts) ==
  \E made \in {createDBF(disk, fields, opts)} :
     /\ disk' = made.disk
     /\ handles' = IF made.written
                   THEN [x \in Handles |-> IF x = h /\ made.ok THEN made.val ELSE Closed]
                   ELSE handles
     /\ hist' = IF made.written
                THEN [origin |-> "created", fields |-> fields, appended |-> <<>>]
                ELSE hist
     /\ last' = [Call("create", h, made.ok, IF made.ok THEN "" ELSE made.val,
                      Len(fields), fields, <<>>, made.written)
                 EXCEPT !.opts = opts,
                        !.fds = TryFinally(TryFinally(last.fds, made.written), made.written)]
     /\ UNCHANGED <<tz, cx, orm>>

\* normaliseOpenOptions: the options open works with, when it accepts what
\* it was given
normaliseOpenOptions(options) ==
  IF options.readMode \notin {"undefined", "strict", "loose"} THEN Thrown("option-invalid")
  ELSE IF ~ValidEncoding(options.encoding) THEN Thrown("option-invalid")
  ELSE Ok([readMode |-> IF options.readMode = "undefined" THEN "strict" ELSE options.readMode,
           encoding |-> IF options.encoding.k = "undefined" THEN Enc("string")
                        ELSE options.encoding,
           includeDeleted |-> options.includeDeleted])

\* openDBF(path, opts): the options are normalised before the file is opened
OpenWith(d, opts) ==
  IF normaliseOpenOptions(opts).ok THEN openDBF(d, normaliseOpenOptions(opts).val)
  ELSE normaliseOpenOptions(opts)

\* DBFFile.open(path, options); the call is recorded with the readMode option
\* as the caller gave it
OpenDBF(h, options) ==
  \E opened \in {OpenWith(disk, options)} :
     /\ handles' = IF opened.ok THEN [handles EXCEPT ![h] = opened.val] ELSE handles
     /\ last' = [Call("open", h, opened.ok, IF opened.ok THEN "" ELSE opened.val,
                      0, <<>>, <<>>, disk.exists /\ normaliseOpenOptions(options).ok)
                 EXCEPT !.mode = options.readMode, !.opts = options]
     /\ UNCHANGED <<disk, hist, tz, cx, orm>>

\* the effect of one readRecords(maxCount) call on the handle
ReadInto(op, h, maxCount) ==
  \E res \in {readRecordsFromDBF(handles[h], disk, maxCount)} :
     /\ handles' = [handles EXCEPT ![h].recordsRead = res.recordsRead]
     /\ last' = Call(op, h, res.ok, IF res.ok THEN "" ELSE "unsupported-type",
                     maxCount, <<>>, res.out, res.touched)
     /\ UNCHANGED <<disk, hist, tz, cx, orm>>

\* dbf.readRecords(maxCount)
ReadRecords(h, maxCount) ==
  /\ handles[h].open
  /\ ReadInto("read", h, maxCount)

\* one turn of the async iterator: while (_recordsRead !== recordCount)
\* yield* await this.readRecords(100)
ScanStep(h) ==
  /\ handles[h].open
  /\ handles[h].recordsRead # handles[h].recordCount
  /\ ReadInto("scan", h, 100)

\* dbf.appendRecords(records)
AppendRecords(h, records) ==
  /\ handles[h].open
  /\ handles[h].recordCount >= 0
  /\ handles[h].recordCount + Len(records) <= MaxRecords
  /\ \E res \in {appendRecordsToDBF(handles[h], disk, records, tz)} :
        /\ disk' = res.disk
        /\ handles' = [handles EXCEPT ![h] = res.handle]
        /\ hist' = IF res.ok THEN [hist EXCEPT !.appended = hist.appended \o records] ELSE hist
        /\ last' = Call("append", h, res.ok, res.err, Len(records), records, <<>>,
                        ValidBatch(handles[h].fields, records))
        /\ UNCHANGED <<tz, cx, orm>>

\* the batches a caller may hand to appendRecords of handle h
AppendInputs(h) ==
  IF handles[h].open
  THEN BatchesOf(RecordsFor(handles[h].fields), Min(MaxBatch, MaxRecords - handles[h].recordCount))
  ELSE {}

\* one caller, holding one handle at a time, is the only writer of the file
Next ==
  \/ \E input \in CreateInputs : CreateDBF("A", input[1], input[2])
  \/ \E options \in OpenOptions : OpenDBF("A", options)
  \/ \E maxCount \in MaxCounts : ReadRecords("A", maxCount)
  \/ ScanStep("A")
  \/ \E records \in AppendInputs("A") : AppendRecords("A", records)

Spec == Init /\ [][Next]_vars

(***************************************************************************)
(* The codecs on their own: one field, and either a value that is encoded  *)
(* and read back or a window that another tool wrote and that is decoded.  *)
(***************************************************************************)
nV == <<"V">>

CodecFields ==
  { Field(nV, "C", 3, Undefined), Field(nV, "N", 5, 1), Field(nV, "N", 3, Undefined),
    Field(nV, "F", 5, 1), Field(nV, "L", 1, Undefined), Field(nV, "D", 8, Undefined),
    Field(nV, "I", 4, Undefined) }

\* 1.875, 1, -12.25, 1234.5 and 0
CodecNumbers ==
  { Num(Unit + 7 * (Unit \div 8)), Num(Unit), Num(0 - (12 * Unit + Unit \div 4)),
    Num(1234 * Unit + Unit \div 2), Num(0) }

CodecDates == { DateVal(Day0229, 0), DateVal(Day0229, 13), DateVal(Day0301, 2) }

CodecStrings ==
  { Str(<<>>), Str(<<"A", "l">>), Str(<<"A", "l", "i", "c", "e">>), Str(<<" ", "a">>) }

\* the values a caller may put in a record for a field
CodecValues ==
  {Null, NaNValue, Bool(TRUE), Bool(FALSE)} \cup CodecNumbers \cup CodecDates \cup CodecStrings

\* windows of a numeric or float field as other tools may leave them
NumberWindows ==
  { <<" ", " ", " ", " ", " ">>, <<" ", " ", "1", ".", "5">>, <<"1", "2", "a", "b", "c">>,
    <<"a", "b", "c", " ", " ">>, <<"-", ".", "5", " ", " ">>, <<" ", "-", " ", "5", " ">>,
    <<".", " ", " ", " ", " ">>, <<"+", "7", " ", " ", " ">>, <<"0", " ", " ", " ", " ">>,
    <<"1", ".", "2", ".", "3">>, <<"N", "a", "N", " ", " ">>, <<"-", "0", ".", "0", "0">>,
    <<NUL, NUL, NUL, NUL, NUL>>, <<" ", " ", " ">>, <<"-", "x", "1">>, <<"*", "*", "*">> }

LogicalWindows ==
  { <<c>> : c \in {"T", "t", "Y", "y", "F", "f", "N", "n", " ", "?", "1", "0", NUL} }

DateWindows ==
  { <<"2", "0", "2", "4", "0", "2", "3", "0">>, <<"2", "0", "2", "4", "0", "2", "2", "9">>,
    <<"2", "0", "2", "3", "0", "2", "2", "9">>, <<"2", "0", "2", "4", "1", "3", "0", "1">>,
    <<"2", "0", "2", "4", "0", "0", "1", "0">>, <<"2", "0", "2", "4", "0", "4", "3", "1">>,
    <<"2", "0", "2", "4", "1", "2", "3", "1">>, <<"2", "0", "2", "4", "0", "1", "0", "0">>,
    <<"0", "0", "0", "0", "0", "0", "0", "0">>, <<" ", " ", " ", " ", " ", " ", " ", " ">>,
    <<"2", "0", "2", "4", "-", "1", "-", "5">>, <<"2", "0", "2", "4", "0", "2", "3", " ">>,
    <<"a", "b", "c", "d", "e", "f", "g", "h">>, <<"2", "0", "2", "4", "0", "2", "x", "x">>,
    <<NUL, NUL, NUL, NUL, NUL, NUL, NUL, NUL>> }

\* the windows of a field's size that a file may hold for it
WindowsOf(field) ==
  { w \in (CASE field.type \in {"N", "F"} -> NumberWindows
             [] field.type = "L" -> LogicalWindows
             [] field.type = "D" -> DateWindows
             [] field.type = "C" -> {<<" ", "o", " ">>, <<"A", "l", " ">>, <<" ", " ", " ">>}
             [] OTHER -> {<<NUL, NUL, NUL, NUL>>}) : Len(w) = field.size }

Given(field, val) ==
  [phase |-> "value", from |-> "value", field |-> field, val |-> val, win |-> <<>>,
   out |-> Ok(Null)]

Found(field, win) ==
  [phase |-> "window", from |-> "window", field |-> field, val |-> Null, win |-> win,
   out |-> Ok(Null)]

InitCodec ==
  /\ disk = NoFile
  /\ handles = [h \in Handles |-> Closed]
  /\ last = Idle
  /\ hist = [origin |-> "none", fields |-> <<>>, appended |-> <<>>]
  /\ tz \in TZOffsets
  /\ orm = [made |-> FALSE]
  /\ cx \in {Given(field, val) : field \in CodecFields, val \in CodecValues}
           \cup UNION {{Found(field, win) : win \in WindowsOf(field)} : field \in CodecFields}

\* validateRecord throws for the value: nothing is encoded
RefuseStep ==
  /\ cx.phase = "value"
  /\ ~ValidValue(cx.field, cx.val)
  /\ cx' = [cx EXCEPT !.phase = "refused"]
  /\ UNCHANGED <<disk, handles, last, hist, tz, orm>>

\* the value passes validateRecord and is encoded into the field's window
EncodeStep ==
  /\ cx.phase = "value"
  /\ ValidValue(cx.field, cx.val)
  /\ \E encoded \in {EncodeField(cx.field, cx.val, tz)} :
        cx' = IF encoded.ok THEN [cx EXCEPT !.phase = "encoded", !.win = encoded.val]
              ELSE [cx EXCEPT !.phase = "threw", !.out = encoded]
  /\ UNCHANGED <<disk, handles, last, hist, tz, orm>>

\* the window is decoded by a handle opened in the given read mode
DecodeStep(readMode) ==
  /\ cx.phase \in {"encoded", "window"}
  /\ cx' = [cx EXCEPT !.phase = "decoded", !.out = DecodeField(cx.field, cx.win, readMode)]
  /\ UNCHANGED <<disk, handles, last, hist, tz, orm>>

NextCodec ==
  \/ RefuseStep
  \/ EncodeStep
  \/ \E readMode \in {"strict", "loose"} : DecodeStep(readMode)

SpecCodec == InitCodec /\ [][NextCodec]_vars

(***************************************************************************)
(* create and open alone, over files of every version with and without a   *)
(* memo file beside them, descriptors at the limits of                     *)
(* validateFieldDescriptor, and every kind of encoding option.             *)
(***************************************************************************)
\* one-field descriptor lists at and past each size limit, a '0' field of
\* one byte, of 255 and of 300, decimalPlaces 0 and 2, a name with spaces
\* around it; two lists of several fields, and a list that has the name ID
\* twice
SetupSchemas ==
  { <<Field(nNAME, t, n, Undefined)>> :
       t \in {"C"}, n \in {0, 1, 255, 256} }
  \cup { <<Field(nAMOUNT, t, n, Undefined)>> : t \in {"N", "F"}, n \in {0, 20, 21} }
  \cup { <<Field(nACTIVE, "L", n, Undefined)>> : n \in {1, 2} }
  \cup { <<Field(nDAY, "D", n, Undefined)>> : n \in {7, 8, 9} }
  \cup { <<Field(nFLAGS, "0", n, Undefined)>> : n \in {0, 1, 255, 300} }
  \cup { <<Field(nID, "N", 3, 0)>>,
         <<Field(nAMOUNT, "N", 5, 2)>>,
         <<Field(<<" ", "A", " ">>, "C", 2, Undefined)>>,
         <<Field(nID, "N", 3, Undefined), Field(nNAME, "C", 2, Undefined)>>,
         <<Field(nNAME, "C", 2, Undefined), Field(nACTIVE, "L", 2, Undefined)>>,
         <<Field(nID, "N", 3, Undefined), Field(nID, "C", 2, Undefined)>>,
         <<>> }

SetupEncodings ==
  {Enc("undefined"), Enc("string"), Enc("number"), Enc("null")}
  \cup {[k |-> "object", default |-> default, rest |-> rest] :
          default \in {"string", "missing", "number"},
          rest \in {"none", "strings", "number"}}

\* every schema without options; three schemas with each fileVersion option
\* (0x03, 0x83, 0x8b, 0x30, and 7 and 0xf5, which normaliseCreateOptions
\* refuses); one schema with each encoding
SetupCreateInputs ==
  {<<fields, [fileVersion |-> Undefined, encoding |-> Enc("undefined")]>> :
     fields \in SetupSchemas}
  \cup {<<fields, [fileVersion |-> v, encoding |-> Enc("undefined")]>> :
          fields \in { <<Field(nNAME, "C", 2, Undefined)>>,
                       <<Field(nID, "N", 3, Undefined), Field(nNAME, "C", 2, Undefined)>>,
                       <<Field(nNAME, "C", 256, Undefined)>> },
          v \in {3, 131, 139, 48, 7, 245}}
  \cup {<<fields, [fileVersion |-> v, encoding |-> e]>> :
          fields \in {<<Field(nNAME, "C", 2, Undefined)>>}, v \in {Undefined},
          e \in SetupEncodings}
  \cup {<<<<Field(nNAME, "C", 256, Undefined)>>, [fileVersion |-> 131, encoding |-> Enc("null")]>>}

SetupOpenOptions ==
  [readMode : {"undefined", "strict", "loose", "fast"}, includeDeleted : {FALSE},
   encoding : {Enc("undefined")}]
  \cup [readMode : {"strict"}, includeDeleted : {FALSE}, encoding : SetupEncodings]
  \cup [readMode : {"loose", "fast"}, includeDeleted : {FALSE},
        encoding : {Enc("string"), Enc("null"),
                    [k |-> "object", default |-> "missing", rest |-> "strings"]}]

\* no file, or a table of each version, with one record, and no memo file,
\* a '.dbt' or a '.DBT' beside it
InitSetup ==
  /\ disk \in {NoFile}
         \cup {ForeignFile(v, s, Len(s), HeaderLengthOf(ForeignFields), m) :
                 v \in {3, 131, 139, 2}, s \in {x \in ForeignSlots : Len(x) = 1},
                 m \in {{}, {".dbt"}, {".DBT"}}}
  /\ handles = [h \in Handles |-> Closed]
  /\ last = Idle
  /\ hist = [origin |-> IF disk = NoFile THEN "none" ELSE "foreign",
             fields |-> <<>>, appended |-> <<>>]
  /\ tz = 0
  /\ cx = NoCodec
  /\ orm = [made |-> FALSE]

NextSetup ==
  \/ \E input \in SetupCreateInputs : CreateDBF("A", input[1], input[2])
  \/ \E options \in SetupOpenOptions : OpenDBF("A", options)

SpecSetup == InitSetup /\ [][NextSetup]_vars

(***************************************************************************)
(* DbfORM: one instance over the file, holding its DBFFile in handle "A".  *)
(* Every method is one action: ensureOpen first, then the call it makes on *)
(* the DBFFile.                                                            *)
(***************************************************************************)
\* open(): DBFFile.open with the instance's options; when the file is not
\* there and autoCreate is set, DBFFile.create with the descriptors defined
OrmOpen(o, d) ==
  LET opened == OpenWith(d, [readMode |-> o.readMode, includeDeleted |-> o.includeDeleted,
                             encoding |-> Enc("string")])
      made == createDBF(d, o.fieldDescriptors, [fileVersion |-> Undefined,
                                               encoding |-> Enc("string")])
  IN IF opened.ok
     THEN [ok |-> TRUE, err |-> "", disk |-> d, handle |-> opened.val,
           orm |-> [o EXCEPT !.isOpen = TRUE, !.fieldDescriptors = opened.val.fields]]
     ELSE IF ~(~d.exists /\ o.autoCreate)
     THEN [ok |-> FALSE, err |-> opened.val, disk |-> d, handle |-> Closed, orm |-> o]
     ELSE IF o.fieldDescriptors = <<>>
     THEN [ok |-> FALSE, err |-> "no-descriptors", disk |-> d, handle |-> Closed, orm |-> o]
     ELSE IF ~made.ok
     THEN [ok |-> FALSE, err |-> made.val, disk |-> made.disk, handle |-> Closed, orm |-> o]
     ELSE [ok |-> TRUE, err |-> "", disk |-> made.disk, handle |-> made.val,
           orm |-> [o EXCEPT !.isOpen = TRUE]]

\* ensureOpen(): if (!this.isOpen) await this.open()
ensureOpen(o, d, hd) ==
  IF o.isOpen THEN [ok |-> TRUE, err |-> "", disk |-> d, handle |-> hd, orm |-> o]
  ELSE OrmOpen(o, d)

\* the filter functions handed to find and findOne: "any" takes every
\* record, "none" no record, "nameB" the records named 'B'
Satisfies(filter, entry) ==
  \/ filter = "any"
  \/ filter = "nameB" /\ nNAME \in DOMAIN entry.rec /\ entry.rec[nNAME] = Str(<<"B">>)

\* what a method leaves behind: st is the outcome of ensureOpen (or open),
\* hd the DBFFile after the call, d the file after the call.  A method whose
\* ensureOpen failed leaves the instance with the DBFFile it had
OrmDone(op, filter, st, ok, err, hd, d, batch, out) ==
  /\ orm' = st.orm
  /\ disk' = d
  /\ handles' = [handles EXCEPT !["A"] = hd]
  /\ hist' = IF ~disk.exists /\ st.disk.exists
             THEN [origin |-> "created", fields |-> orm.fieldDescriptors,
                   appended |-> IF ok THEN batch ELSE <<>>]
             ELSE IF ok THEN [hist EXCEPT !.appended = hist.appended \o batch] ELSE hist
  /\ last' = [Call(op, "A", ok, err, Len(batch), batch, out, TRUE)
              EXCEPT !.opts = [given |-> TRUE, filter |-> filter]]
  /\ UNCHANGED <<tz, cx>>

\* orm.open()
OrmOpenCall ==
  \E st \in {OrmOpen(orm, disk)} :
     IF ~st.ok THEN OrmDone("ormOpen", "any", st, FALSE, st.err, handles["A"], st.disk, <<>>, <<>>)
     ELSE OrmDone("ormOpen", "any", st, TRUE, "", st.handle, st.disk, <<>>, <<>>)

\* orm.close(): this.dbfFile = null; this.isOpen = false
OrmClose ==
  /\ orm.isOpen
  /\ orm' = [orm EXCEPT !.isOpen = FALSE]
  /\ handles' = [handles EXCEPT !["A"] = Closed]
  /\ last' = Call("ormClose", "A", TRUE, "", 0, <<>>, <<>>, FALSE)
  /\ UNCHANGED <<disk, hist, tz, cx>>

\* findAll(), toJSON() and find(filterFn): ensureOpen, then
\* this.dbfFile.readRecords() with maxCount left to its default of 10000000,
\* then records.filter(filterFn) for find
OrmReadAll(op, filter) ==
  \E st \in {ensureOpen(orm, disk, handles["A"])} :
     IF ~st.ok THEN OrmDone(op, filter, st, FALSE, st.err, handles["A"], st.disk, <<>>, <<>>)
     ELSE \E res \in {readRecordsFromDBF(st.handle, st.disk, 10000000)} :
            OrmDone(op, filter, st, res.ok, IF res.ok THEN "" ELSE "unsupported-type",
                    [st.handle EXCEPT !.recordsRead = res.recordsRead], st.disk, <<>>,
                    SelectSeq(res.out, LAMBDA entry : Satisfies(filter, entry)))

\* the loop of findOne over the async iterator: batches of 100 from the
\* cursor on while the cursor differs from recordCount, left at the first
\* record that satisfies the filter
RECURSIVE FindOneLoop(_, _, _)
FindOneBatch(hd, d, filter, res) ==
  IF ~res.ok THEN [ok |-> FALSE, out |-> <<>>, recordsRead |-> res.recordsRead]
  ELSE IF \E i \in 1..Len(res.out) : Satisfies(filter, res.out[i])
  THEN [ok |-> TRUE, recordsRead |-> res.recordsRead,
        out |-> <<Head(SelectSeq(res.out, LAMBDA entry : Satisfies(filter, entry)))>>]
  ELSE FindOneLoop([hd EXCEPT !.recordsRead = res.recordsRead], d, filter)

FindOneLoop(hd, d, filter) ==
  IF hd.recordsRead = hd.recordCount
  THEN [ok |-> TRUE, out |-> <<>>, recordsRead |-> hd.recordsRead]
  ELSE FindOneBatch(hd, d, filter, readRecordsFromDBF(hd, d, 100))

\* findOne(filterFn); the result null is the empty out.  The tables here
\* have a record count the cursor can reach
OrmFindOne(filter) ==
  \E st \in {ensureOpen(orm, disk, handles["A"])} :
     IF ~st.ok THEN OrmDone("findOne", filter, st, FALSE, st.err, handles["A"], st.disk, <<>>, <<>>)
     ELSE /\ st.handle.recordsRead <= st.handle.recordCount
          /\ \E res \in {FindOneLoop(st.handle, st.disk, filter)} :
                OrmDone("findOne", filter, st, res.ok,
                        IF res.ok THEN "" ELSE "unsupported-type",
                        [st.handle EXCEPT !.recordsRead = res.recordsRead], st.disk,
                        <<>>, res.out)

\* insert(record): ensureOpen, then this.dbfFile.appendRecords([record])
OrmInsert ==
  \E st \in {ensureOpen(orm, disk, handles["A"])} :
     IF ~st.ok THEN OrmDone("insert", "any", st, FALSE, st.err, handles["A"], st.disk, <<>>, <<>>)
     ELSE /\ st.handle.recordCount + 1 <= MaxRecords
          /\ \E record \in RecordsFor(st.handle.fields) :
               \E res \in {appendRecordsToDBF(st.handle, st.disk, <<record>>, tz)} :
                  OrmDone("insert", "any", st, res.ok, res.err, res.handle, res.disk,
                          <<record>>, <<>>)

\* new DbfORM(path, options), with or without defineFields(...), over no
\* file or a table with records
InitORM ==
  /\ disk \in {NoFile}
         \cup {ForeignFile(3, s, Len(s), HeaderLengthOf(ForeignFields), {}) : s \in ForeignSlots}
  /\ handles = [h \in Handles |-> Closed]
  /\ last = Idle
  /\ hist = [origin |-> IF disk = NoFile THEN "none" ELSE "foreign",
             fields |-> <<>>, appended |-> <<>>]
  /\ tz = 0
  /\ cx = NoCodec
  /\ orm \in [made : {TRUE}, isOpen : {FALSE}, autoCreate : BOOLEAN,
              includeDeleted : BOOLEAN, readMode : {"strict", "loose"},
              fieldDescriptors : {<<>>, ForeignFields}]

NextORM ==
  \/ OrmOpenCall
  \/ OrmClose
  \/ \E op \in {"findAll", "toJSON"} : OrmReadAll(op, "any")
  \/ \E filter \in {"any", "none", "nameB"} : OrmReadAll("find", filter)
  \/ \E filter \in {"any", "none", "nameB"} : OrmFindOne(filter)
  \/ OrmInsert

SpecORM == InitORM /\ [][NextORM]_vars

(***************************************************************************)
(* appendRecords when a write fails.  The writes of one call are numbered  *)
(* in the order appendRecordsToDBF makes them: 1..K the records of the     *)
(* batch, K + 1 the record count of the header, K + 2 its date, K + 3 the  *)
(* end-of-file byte.  A write that fails has written nothing, or, for a    *)
(* record longer than one byte, only the start of it.                      *)
(***************************************************************************)
\* a writer that rewrites the header's count before it writes the records
CountWrittenFirst(failAt, K) == failAt > 1

\* the count of the header has been rewritten when write failAt fails: the
\* rewrite is write K + 1, after the loop over the records
CountWritten(failAt, K) == failAt > K + 1

\* the file appendRecordsToDBF leaves when its write failAt rejects, torn
\* telling whether the start of a failed record reached the file
appendInterrupted(hd, d, records, zone, failAt, torn) ==
  LET K == Len(records)
      done == Min(failAt - 1, K)
      written == WriteRecords(hd, d, SubSeq(records, 1, done), AppendPosition(hd), zone).val
      partial == IF failAt <= K /\ torn
                 THEN WriteByte(written, AppendPosition(hd) + done, " ")
                 ELSE written
  IN [partial EXCEPT
        !.count = IF CountWritten(failAt, K) THEN hd.recordCount + K ELSE @,
        !.stamp = IF failAt > K + 2 THEN "now" ELSE @]

\* dbf.appendRecords(records), one of its writes failing: the call rejects
\* with the error of the write and the handle is left as it was
AppendInterrupted(h, records, failAt, torn) ==
  /\ handles[h].open
  /\ disk.exists
  /\ handles[h].recordCount >= 0
  /\ handles[h].recordCount + Len(records) <= MaxRecords
  /\ failAt \in 1..(Len(records) + 3)
  /\ torn => (failAt <= Len(records) /\ disk.recordLength > 1)
  /\ ValidBatch(handles[h].fields, records)
  /\ \A i \in 1..Min(failAt, Len(records)) :
        EncodeRecord(handles[h], disk, records[i], tz).ok
  /\ disk' = appendInterrupted(handles[h], disk, records, tz, failAt, torn)
  /\ last' = Call("append", h, FALSE, "io-failure", Len(records), records, <<>>, TRUE)
  /\ UNCHANGED <<handles, hist, tz, cx, orm>>

\* no file yet, the process in the UTC zone
InitNoFile == Init /\ disk = NoFile /\ tz = 0

\* the sole writer of a table it creates, on a disk whose writes may fail
NextIO ==
  \/ \E fields \in GoodSchemas :
        CreateDBF("A", fields, [fileVersion |-> Undefined, encoding |-> Enc("undefined")])
  \/ OpenDBF("A", [readMode |-> "strict", includeDeleted |-> FALSE,
                   encoding |-> Enc("undefined")])
  \/ ReadRecords("A", 100)
  \/ \E k \in 0..MaxBatch :
        AppendRecords("A", [i \in 1..k |-> SampleRecord(handles["A"].fields, 1)])
  \/ \E k \in 0..MaxBatch, failAt \in 1..(MaxBatch + 3), torn \in BOOLEAN :
        AppendInterrupted("A", [i \in 1..k |-> SampleRecord(handles["A"].fields, 1)],
                          failAt, torn)

SpecIO == InitNoFile /\ [][NextIO]_vars

(***************************************************************************)
(* Two handles on one file.  Nothing keeps the calls made through one from *)
(* those made through the other; each call runs to its end before the next *)
(* starts.  A appends records of the first row of the sample data, B of   *)
(* the second; the appends of a run are capped at MaxRecords + 1 records.  *)
(***************************************************************************)
NextTwo ==
  \/ CreateDBF("A", ForeignFields, [fileVersion |-> Undefined, encoding |-> Enc("undefined")])
  \/ \E h \in Handles :
        \/ OpenDBF(h, [readMode |-> "strict", includeDeleted |-> FALSE,
                       encoding |-> Enc("undefined")])
        \/ ReadRecords(h, 100)
        \/ \E k \in 0..MaxBatch :
              /\ Len(hist.appended) + k <= MaxRecords + 1
              /\ AppendRecords(h, [i \in 1..k |->
                                     SampleRecord(handles[h].fields, IF h = "A" THEN 1 ELSE 2)])

SpecTwo == InitNoFile /\ [][NextTwo]_vars

(***************************************************************************)
(* Properties of the engine.                                               *)
(***************************************************************************)
\* the header's count matches the records present, which the end-of-file
\* byte follows
WellFormedFile(d) ==
  /\ d.exists
  /\ d.count >= 0
  /\ FileLength(d) = d.headerLength + d.count * d.recordLength + 1

\* the handle has the file's layout and count
InStep(hd, d) ==
  /\ hd.open
  /\ hd.recordCount = d.count
  /\ hd.headerLength = d.headerLength
  /\ hd.recordLength = d.recordLength

\* C1: a successful appendRecords of K records by the only writer of a
\* well-formed file adds exactly K to the handle's recordCount and to the
\* header's record count, and exactly K * recordLength to the file length,
\* whatever appends and reads came before.
C1_AppendAddsK ==
  [][(/\ last'.op = "append" /\ last'.ok
      /\ WellFormedFile(disk) /\ InStep(handles[last'.h], disk))
     => /\ handles'[last'.h].recordCount = handles[last'.h].recordCount + Len(last'.batch)
        /\ disk'.count = disk.count + Len(last'.batch)
        /\ FileLength(disk') = FileLength(disk) + Len(last'.batch) * handles[last'.h].recordLength
        /\ WellFormedFile(disk')]_vars

\* a record has been appended after an earlier append and a read of its record
C1_Witness ==
  /\ last.op = "append" /\ last.ok /\ Len(last.batch) = 1
  /\ hist.origin = "created" /\ Len(hist.appended) = 2
  /\ handles["A"].recordCount = 2 /\ disk.count = 2
  /\ handles["A"].recordsRead = 1
  /\ FileLength(disk) = disk.headerLength + 2 * disk.recordLength + 1

\* the positions of the records a read emitted, in the order emitted
Positions(out) == [i \in 1..Len(out) |-> out[i].pos]

\* C2: over the reads and appends of one handle the cursor never decreases, a
\* read emits only positions from the cursor it started at up to the cursor
\* it leaves, each once and in rising order (so no position is emitted twice),
\* and a read made with the cursor at recordCount returns nothing and does
\* not open the file.
C2_CursorOnlyAdvances ==
  [][(last'.op \in {"read", "scan", "append"})
     => /\ handles'[last'.h].recordsRead >= handles[last'.h].recordsRead
        /\ \A i \in 1..Len(last'.out) :
             /\ last'.out[i].pos >= handles[last'.h].recordsRead
             /\ last'.out[i].pos < handles'[last'.h].recordsRead
             /\ \A j \in 1..(i - 1) : last'.out[j].pos < last'.out[i].pos
        /\ (last'.op = "read" /\ handles[last'.h].recordsRead = handles[last'.h].recordCount)
             => /\ last'.ok /\ last'.out = <<>> /\ ~last'.touched
                /\ handles'[last'.h].recordsRead = handles[last'.h].recordsRead]_vars

\* a read was asked for more at the end of a file of two records
C2_Witness ==
  /\ last.op = "read" /\ last.n > 0 /\ last.out = <<>> /\ ~last.touched
  /\ handles["A"].recordsRead = handles["A"].recordCount
  /\ handles["A"].recordCount = MaxRecords

\* C3: a file written by create from N descriptors has, in its header and in
\* every handle on it, headerLength = 32 + 32*N + 1 and recordLength = 1 + the
\* sum of the field sizes, also after appends and reads.
C3_LayoutOfCreatedFiles ==
  hist.origin = "created"
    => /\ disk.exists
       /\ disk.headerLength = 32 + 32 * Len(hist.fields) + 1
       /\ disk.recordLength = 1 + SumSizes(hist.fields)
       /\ \A h \in Handles :
            handles[h].open => /\ handles[h].headerLength = 32 + 32 * Len(hist.fields) + 1
                               /\ handles[h].recordLength = 1 + SumSizes(hist.fields)

\* a created file of three fields, after an append and a read
C3_Witness ==
  /\ hist.origin = "created" /\ Len(hist.fields) = 3
  /\ handles["A"].open /\ handles["A"].headerLength = 129 /\ handles["A"].recordLength = 7
  /\ handles["A"].recordCount > 0 /\ handles["A"].recordsRead > 0

\* the number of records a read of maxCount visits from where the handle is
Visited(hd, maxCount) ==
  IF maxCount <= hd.recordCount - hd.recordsRead
  THEN (IF maxCount > 0 THEN maxCount ELSE 0)
  ELSE (IF hd.recordCount - hd.recordsRead > 0 THEN hd.recordCount - hd.recordsRead ELSE 0)

\* the entries a read emitted for position p
EmittedAt(out, p) == {i \in 1..Len(out) : out[i].pos = p}

\* C4: a read that succeeds visits Visited positions from the cursor and
\* advances the cursor by one for each; a position whose record is marked '*'
\* emits nothing when includeDeletedRecords is false and emits the record with
\* the DELETED flag when it is true; a position whose record is not marked '*'
\* emits the record without the flag.
C4_DeletedRecords ==
  [][(last'.op \in {"read", "scan"} /\ last'.ok)
     => LET hd == handles[last'.h]
            n == Visited(hd, last'.n)
        IN /\ handles'[last'.h].recordsRead = hd.recordsRead + n
           /\ \A p \in hd.recordsRead..(hd.recordsRead + n - 1) :
                p < Len(disk.slots) =>
                  IF disk.slots[p + 1].mark = "*"
                  THEN IF hd.includeDeleted
                       THEN \E i \in 1..Len(last'.out) :
                              /\ EmittedAt(last'.out, p) = {i}
                              /\ last'.out[i].deleted
                       ELSE EmittedAt(last'.out, p) = {}
                  ELSE \E i \in 1..Len(last'.out) :
                         /\ EmittedAt(last'.out, p) = {i}
                         /\ ~last'.out[i].deleted]_vars

\* a deleted record was passed over and the cursor stands behind it
C4_Witness ==
  /\ last.op = "read" /\ last.ok /\ last.n = 1 /\ last.out = <<>> /\ last.touched
  /\ ~handles["A"].includeDeleted
  /\ handles["A"].recordsRead = 1
  /\ disk.slots[1].mark = "*"

\* a non-null value whose kind is not of the field's type family
KindMismatch(field, val) ==
  /\ val.k # "null"
  /\ \/ field.type = "C" /\ val.k \notin {"str", "bytestr", "num", "nan", "bool"}
     \/ field.type \in {"N", "F"} /\ val.k \notin {"num", "nan"}
     \/ field.type = "L" /\ val.k # "bool"
     \/ field.type = "D" /\ val.k # "date"

HasMismatch(fields, records) ==
  \E r \in 1..Len(records) : \E i \in 1..Len(fields) :
    KindMismatch(fields[i], records[r][fields[i].name])

\* C6: appendRecords of a batch in which some record holds a value of the
\* wrong kind for a C, N, F, L or D field fails, and leaves the file, its
\* header count and the handle as they were, also when the records before it
\* in the batch are valid.
C6_InvalidBatchWritesNothing ==
  [][(last'.op = "append" /\ HasMismatch(handles[last'.h].fields, last'.batch))
     => /\ ~last'.ok /\ last'.err = "record-invalid"
        /\ disk' = disk
        /\ handles'[last'.h].recordCount = handles[last'.h].recordCount]_vars

\* a batch whose first record is valid and whose second is not was refused
C6_Witness ==
  /\ last.op = "append" /\ ~last.ok /\ Len(last.batch) = 2
  /\ handles["A"].open
  /\ validateRecord(handles["A"].fields, last.batch[1])
  /\ HasMismatch(handles["A"].fields, <<last.batch[2]>>)
  /\ disk.count = 0 /\ handles["A"].recordCount = 0

\* C10: open of a file whose version byte is none of 0x03, 0x83, 0x8b, 0x30,
\* 0xf5 fails with the unsupported-version error in strict mode (also when no
\* readMode is given) and, the header being readable, returns a handle in
\* loose mode; open of a file with a readable header whose version byte is
\* 0x03, 0x30 or 0xf5 (no side file) returns a handle in every mode.
C10_VersionCheck ==
  (last.op = "open" /\ disk.exists)
    => /\ (disk.version \notin {3, 131, 139, 48, 245} /\ last.mode \in {"undefined", "strict"})
            => ~last.ok /\ last.err = "version-unsupported"
       /\ (disk.version \notin {3, 131, 139, 48, 245} /\ last.mode = "loose"
             /\ disk.headerLength >= 33)
            => /\ last.ok /\ handles[last.h].open
               /\ handles[last.h].version = disk.version
               /\ handles[last.h].readMode = "loose"
       /\ (disk.version \in {3, 48, 245} /\ disk.headerLength >= 33)
            => last.ok /\ handles[last.h].open /\ handles[last.h].version = disk.version

\* a file of version 0x02 was opened in loose mode
C10_Witness ==
  /\ last.op = "open" /\ last.mode = "loose" /\ last.ok
  /\ disk.exists /\ disk.version = 2
  /\ handles["A"].open /\ handles["A"].version = 2

(***************************************************************************)
(* Properties of the codecs.                                               *)
(***************************************************************************)
CharAt(w, i) == IF i >= 1 /\ i <= Len(w) THEN w[i] ELSE NUL

\* the index of the first character of w that is no space (Len(w) + 1 if none)
FirstNonSpace(w) ==
  IF \A i \in 1..Len(w) : w[i] = " " THEN Len(w) + 1
  ELSE CHOOSE i \in 1..Len(w) : w[i] # " " /\ \A j \in 1..(i - 1) : w[j] = " "

\* the window begins, after spaces, with a number: an optional sign, then a
\* digit or a point and a digit
StartsNumber(w) ==
  LET i == FirstNonSpace(w)
      j == IF CharAt(w, i) \in {"+", "-"} THEN i + 1 ELSE i
  IN \/ IsDigit(CharAt(w, j))
     \/ CharAt(w, j) = "." /\ IsDigit(CharAt(w, j + 1))

\* C9: decoding an N, F, L or D window never throws and never yields NaN,
\* whatever the window holds; an N or F window that does not begin with a
\* number (all spaces included) decodes to null, not to 0, and one that does
\* decodes to a number; an L window whose byte is none of T, Y, F, N in
\* either case decodes to null.
C9_DecodeNeverFails ==
  (cx.phase = "decoded" /\ cx.field.type \in {"N", "F", "L", "D"})
    => /\ cx.out.ok
       /\ cx.out.val.k # "nan"
       /\ cx.field.type \in {"N", "F"}
            => IF StartsNumber(cx.win) THEN cx.out.val.k = "num" ELSE cx.out.val = Null
       /\ (cx.field.type = "L" /\ cx.win[1] \notin {"T", "t", "Y", "y", "F", "f", "N", "n"})
            => cx.out.val = Null

\* a numeric window of spaces alone was decoded to null
C9_Witness ==
  /\ cx.phase = "decoded" /\ cx.from = "window" /\ cx.field.type = "N"
  /\ cx.win = <<" ", " ", " ", " ", " ">>
  /\ cx.out = Ok(Null)

IsLeap(y) == (y % 4 = 0 /\ y % 100 # 0) \/ y % 400 = 0

DaysIn(y, m) ==
  IF m = 2 THEN (IF IsLeap(y) THEN 29 ELSE 28)
  ELSE IF m \in {4, 6, 9, 11} THEN 30 ELSE 31

EightDigits(w) == Len(w) = 8 /\ \A i \in 1..8 : IsDigit(w[i])

\* the eight digits name a day of the calendar
RealDate(w) ==
  LET y == DigitsToNat(SubSeq(w, 1, 4))
      m == DigitsToNat(SubSeq(w, 5, 6))
      d == DigitsToNat(SubSeq(w, 7, 8))
  IN m >= 1 /\ m <= 12 /\ d >= 1 /\ d <= DaysIn(y, m)

\* C8: a D window of eight digits that name no day of the calendar (a month
\* outside 1..12, a day beyond the month's length, such as 20240230) decodes
\* to null and does not throw.
C8_InvalidDateIsNull ==
  (cx.phase = "decoded" /\ cx.field.type = "D" /\ EightDigits(cx.win) /\ ~RealDate(cx.win))
    => cx.out = Ok(Null)

\* the value read back is the value written, text cut to the field's width
\* and stripped of padding, a number rounded to the field's decimal places, a
\* date showing the same calendar day to the process
SameUpTo(field, val, out, zone) ==
  IF val.k = "null" THEN out = Null
  ELSE CASE field.type = "C" ->
              out.k = "str" /\ Trim(out.v) = Trim(Take(ToStr(val), field.size))
         [] field.type \in {"N", "F"} ->
              IF val.k = "nan" THEN out = Null
              ELSE LET places == IF field.dec = Undefined THEN 0 ELSE field.dec
                       step == Unit \div Pow10(places)
                   IN /\ out.k = "num"
                      /\ out.v % step = 0
                      /\ 2 * Abs(out.v - val.v) <= step
         [] field.type = "L" -> out = val
         [] field.type = "D" ->
              out.k = "date" /\ LocalCivil(out.v, zone) = LocalCivil(val.v, zone)
         [] OTHER -> TRUE

\* C7: a value of a C, N, F, L or D field that passes validation (null
\* included) is read back as the same value once encoded, up to truncation
\* and padding of text to the field's width and rounding of numbers to the
\* field's decimal places.
C7_RoundTrip ==
  (cx.phase = "decoded" /\ cx.from = "value" /\ cx.field.type \in {"C", "N", "F", "L", "D"})
    => cx.out.ok /\ SameUpTo(cx.field, cx.val, cx.out.val, tz)

\* C5: a scan from cursor 0 of a file made by create and successful appends
\* yields one record per appended record, in the order appended, none flagged
\* deleted, each holding the appended values.
C5_ScanYieldsAppended ==
  [][(/\ last'.op = "scan" /\ hist.origin = "created"
      /\ handles[last'.h].recordsRead = 0)
     => /\ last'.ok
        /\ Len(last'.out) = Len(hist.appended)
        /\ \A i \in 1..Len(last'.out) :
             /\ last'.out[i].pos = i - 1
             /\ ~last'.out[i].deleted
             /\ \A f \in 1..Len(hist.fields) :
                  SameUpTo(hist.fields[f], hist.appended[i][hist.fields[f].name],
                           last'.out[i].rec[hist.fields[f].name], tz)]_vars

(***************************************************************************)
(* Properties of create and open.                                          *)
(***************************************************************************)
\* the encoding options a caller may give: none, a string, or an object
\* whose default and every other property are strings
GoodEncodings ==
  {Enc("undefined"), Enc("string"),
   [k |-> "object", default |-> "string", rest |-> "none"],
   [k |-> "object", default |-> "string", rest |-> "strings"]}

\* the last call was an open, with options open accepts, of a table of
\* version 0x83 or 0x8b
OpenedMemoTable ==
  /\ last.op = "open"
  /\ last.mode \in {"undefined", "strict", "loose"}
  /\ last.opts.encoding \in GoodEncodings
  /\ disk.exists
  /\ disk.version \in {131, 139}

CreateCalled(call) ==
  /\ call.op = "create"
  /\ call.opts.fileVersion \in {Undefined, 3, 131, 139, 48}
  /\ call.opts.encoding \in GoodEncodings

\* the sizes the claim names as refused, and as accepted
RefusedSize(field) ==
  \/ field.size < 1
  \/ field.type = "C" /\ field.size > 255
  \/ field.type \in {"N", "F"} /\ field.size > 20
  \/ field.type = "L" /\ field.size # 1
  \/ field.type = "D" /\ field.size # 8

LimitSize(field) ==
  <<field.type, field.size>> \in {<<"C", 255>>, <<"N", 20>>, <<"F", 20>>, <<"L", 1>>, <<"D", 8>>}

\* C12: create refuses a descriptor list with a C field above 255 bytes, an N
\* or F field above 20, an L field not of 1, a D field not of 8 or any field
\* below 1, with a descriptor error, before the file is opened or written: the
\* file and the handles are as they were.  It accepts C of 255, N and F of
\* 20, L of 1 and D of 8, and writes the file.
C12_DescriptorLimits ==
  [][CreateCalled(last') =>
       /\ (\E i \in 1..Len(last'.batch) : RefusedSize(last'.batch[i]))
            => /\ ~last'.ok
               /\ last'.err = "descriptor-invalid"
               /\ ~last'.touched
               /\ disk' = disk
               /\ handles' = handles
       /\ (Len(last'.batch) = 1 /\ LimitSize(last'.batch[1]))
            => /\ last'.err # "descriptor-invalid"
               /\ last'.touched
               /\ disk'.exists /\ disk'.count = 0
               /\ disk'.version \notin {131, 139} => last'.ok]_vars

C12_Witness ==
  /\ CreateCalled(last) /\ ~last.ok /\ last.err = "descriptor-invalid"
  /\ Len(last.batch) = 2 /\ last.batch[2].type = "L" /\ last.batch[2].size = 2
  /\ disk.exists /\ disk.count = 1

(***************************************************************************)
(* Fields of a type the engine has no codec for.                           *)
(***************************************************************************)
NoCodecFields(fields) ==
  {i \in 1..Len(fields) : fields[i].type \notin {"C", "N", "F", "L", "D", "0"}}

\* the positions a read of maxCount visits and does not skip
Decoded(hd, d, maxCount) ==
  {p \in hd.recordsRead..(hd.recordsRead + Visited(hd, maxCount) - 1) :
     p < Len(d.slots) /\ ~(d.slots[p + 1].mark = "*" /\ ~hd.includeDeleted)}

\* C13: on a table with a field of a type other than C, N, F, L, D and 0, a
\* read that comes to a record it does not skip fails with the
\* unsupported-type error in strict mode, and in loose mode succeeds with
\* null for that field in every record; an append of a non-empty batch fails
\* in both modes and writes nothing, with the unsupported-type error when the
\* batch passes validation.
C13_NoCodec ==
  [][(/\ last'.op \in {"read", "scan", "append"}
      /\ NoCodecFields(handles[last'.h].fields) # {})
     => LET hd == handles[last'.h]
        IN /\ (last'.op # "append" /\ hd.readMode = "strict"
                  /\ Decoded(hd, disk, last'.n) # {})
                => ~last'.ok /\ last'.err = "unsupported-type"
           /\ (last'.op # "append" /\ hd.readMode = "loose")
                => /\ last'.ok
                   /\ Len(last'.out) = Cardinality(Decoded(hd, disk, last'.n))
                   /\ \A i \in 1..Len(last'.out) : \A f \in NoCodecFields(hd.fields) :
                        last'.out[i].rec[hd.fields[f].name] = Null
           /\ (last'.op = "append" /\ last'.batch # <<>>)
                => /\ ~last'.ok
                   /\ ~HasMismatch(hd.fields, last'.batch) => last'.err = "unsupported-type"
                   /\ disk' = disk
                   /\ handles'[last'.h].recordCount = hd.recordCount]_vars

\* in loose mode a record holding a number in the field was refused
C13_Witness ==
  /\ last.op = "append" /\ ~last.ok /\ last.err = "unsupported-type"
  /\ handles[last.h].readMode = "loose"
  /\ Len(last.batch) = 2 /\ last.batch[1][nREF] = Num(7 * Unit)

(***************************************************************************)
(* The encoding option.                                                    *)
(***************************************************************************)
\* an object without a string default, an object with a property that is no
\* string, a value that is neither a string nor an object, and null
BadEncoding(encoding) ==
  \/ encoding.k = "object" /\ (encoding.default # "string" \/ encoding.rest = "number")
  \/ encoding.k \in {"number", "null"}

\* C14: open and create reject an encoding option that is an object without
\* a string default, an object with a property that is not a string, or a
\* value that is neither a string nor an object, and do so before the file is
\* opened, read, created or truncated: the file and the handles are as they
\* were.
C14_EncodingRejected ==
  [][(last'.op \in {"open", "create"} /\ BadEncoding(last'.opts.encoding))
     => /\ ~last'.ok
        /\ last'.err = "option-invalid"
        /\ ~last'.touched
        /\ disk' = disk
        /\ handles' = handles]_vars

\* create was refused for a property that is a number, and no file appeared
C14_Witness ==
  /\ last.op = "create"
  /\ last.opts.encoding = [k |-> "object", default |-> "string", rest |-> "number"]
  /\ ~last.ok /\ last.err = "option-invalid" /\ ~disk.exists

(***************************************************************************)
(* What create returns.                                                    *)
(***************************************************************************)
\* C15: the handle a successful create returns has the descriptor list it
\* was given: as many fields, in the same order, each with the same name,
\* type, size and decimalPlaces.
C15_FieldsAsGiven ==
  (last.op = "create" /\ last.ok) => handles[last.h].fields = last.batch

\* C16: with a fileVersion option of 0x03, 0x83, 0x8b or 0x30 (or none) and
\* descriptors that pass validation, create returns a handle of the version
\* asked for; a create that fails does so for an option or a descriptor it
\* refuses (a size that no byte holds counted among them), and leaves the
\* file as it was: none created, none truncated.
C16_CreateAllOrNothing ==
  [][last'.op = "create" =>
       /\ (/\ CreateCalled(last')
           /\ \A i \in 1..Len(last'.batch) :
                /\ validateFieldDescriptor(last'.batch[i], last'.opts.fileVersion)
                /\ last'.batch[i].size <= 255)
            => /\ last'.ok
               /\ handles'[last'.h].version =
                    (IF last'.opts.fileVersion = Undefined THEN 3 ELSE last'.opts.fileVersion)
       /\ ~last'.ok => /\ last'.err \in {"option-invalid", "descriptor-invalid", "range"}
                       /\ disk' = disk]_vars

\* C20: create accepts a field of type '0' of any size from 1 up, sizes above
\* 255 included, and the handle it returns has the field with that size.
C20_OpaqueAnySize ==
  (/\ CreateCalled(last)
   /\ last.opts.fileVersion \notin {131, 139}
   /\ Len(last.batch) = 1 /\ last.batch[1].type = "0" /\ last.batch[1].size >= 1)
    => /\ last.ok
       /\ Len(handles[last.h].fields) = 1
       /\ handles[last.h].fields[1].size = last.batch[1].size

(***************************************************************************)
(* The scan.                                                               *)
(***************************************************************************)
\* C19: consuming the scan of a handle to its end terminates: the scan goes
\* on while the cursor differs from recordCount, by reads of at most 100
\* records, and each of its reads that succeeds moves the cursor forward and
\* not past recordCount, so that the cursor reaches recordCount.
C19_ScanTerminates ==
  [][last'.op = "scan" =>
       /\ Len(last'.out) <= 100
       /\ last'.ok => /\ handles'[last'.h].recordsRead > handles[last'.h].recordsRead
                      /\ handles'[last'.h].recordsRead <= handles[last'.h].recordCount]_vars

(***************************************************************************)
(* Properties of DbfORM.                                                   *)
(***************************************************************************)
\* the positions of the records a reader of the instance sees: those not
\* marked deleted, and the deleted ones too under includeDeletedRecords
Seen(d, hd) ==
  {p \in 0..(d.count - 1) : d.slots[p + 1].mark # "*" \/ hd.includeDeleted}

\* the record at a position satisfies the filter, told from the bytes of its
\* NAME field
SlotSatisfies(filter, slot) ==
  \/ filter = "any"
  \/ filter = "nameB" /\ Trim(slot.wins[2]) = <<"B">>

\* C17: every findAll that succeeds returns all the records then in the file
\* that are not deleted, each once, whatever findAll, find, findOne, toJSON
\* or insert was called on the instance before.
C17_FindAllReturnsAll ==
  (last.op = "findAll" /\ last.ok)
    => \A p \in 0..(disk.count - 1) :
         disk.slots[p + 1].mark # "*" => Cardinality(EmittedAt(last.out, p)) = 1

\* C18: findOne returns the first record in file order that satisfies the
\* filter, or null when no record of the file does, whatever was read on the
\* instance before.
C18_FindOneFirstMatch ==
  (last.op = "findOne" /\ last.ok)
    => LET matching == {p \in Seen(disk, handles["A"]) :
                          SlotSatisfies(last.opts.filter, disk.slots[p + 1])}
       IN IF matching = {} THEN last.out = <<>>
          ELSE /\ Len(last.out) = 1
               /\ last.out[1].pos \in matching
               /\ \A p \in matching : last.out[1].pos <= p

(***************************************************************************)
(* Field names.                                                            *)
(***************************************************************************)
\* C21: in every handle create or open returns the field names are pairwise
\* distinct, so that a record has one entry for each descriptor.
C21_NamesDistinct ==
  \A h \in Handles :
    handles[h].open =>
      /\ \A i, j \in 1..Len(handles[h].fields) :
           handles[h].fields[i].name = handles[h].fields[j].name => i = j
      /\ Cardinality(Names(handles[h].fields)) = Len(handles[h].fields)

(***************************************************************************)
(* The cursor of a read that fails.                                        *)
(***************************************************************************)
\* C28: a readRecords call (or a step of the scan) that fails leaves the
\* cursor of its handle at the value it had before the call.
C28_FailedReadKeepsCursor ==
  [][\A h \in Handles :
       (last'.op \in {"read", "scan"} /\ last'.h = h /\ ~last'.ok /\ handles[h].open)
         => handles'[h].recordsRead = handles[h].recordsRead]_vars

(***************************************************************************)
(* Writing a record of nulls to a created table.                           *)
(***************************************************************************)
AllNull(fields) == [name \in Names(fields) |-> Null]

\* C30: every field type create accepts can be written: on a handle of a
\* created file, the append of one record whose fields are all null succeeds.
C30_NullRecordWritable ==
  [][\A h \in Handles :
       (/\ hist.origin = "created"
        /\ handles[h].open
        /\ WellFormedFile(disk)
        /\ last'.op = "append" /\ last'.h = h
        /\ last'.batch = <<AllNull(handles[h].fields)>>)
         => last'.ok /\ disk'.count = disk.count + 1]_vars

(***************************************************************************)
(* Numeric and float fields.                                               *)
(***************************************************************************)
\* the same field declared with another type
Retyped(field, type) == [field EXCEPT !.type = type]

\* C25: N and F fields are encoded by one rule: the bytes a number is written
\* as in an N field are the bytes it is written as in an F field of the same
\* size and decimalPlaces.
C25_NumericAndFloatAlike ==
  (/\ cx.phase = "encoded"
   /\ cx.from = "value"
   /\ cx.field.type \in {"N", "F"}
   /\ cx.val.k = "num")
    => /\ cx.win = EncodeField(Retyped(cx.field, "N"), cx.val, tz).val
       /\ cx.win = EncodeField(Retyped(cx.field, "F"), cx.val, tz).val

(***************************************************************************)
(* The cursor between 0 and recordCount.                                   *)
(***************************************************************************)
Max(a, b) == IF a >= b THEN a ELSE b

\* the cursor of every open handle with a count of 0 or more lies in
\* 0..recordCount
CursorInRange(hs) ==
  \A h \in Handles :
    (hs[h].open /\ hs[h].recordCount >= 0)
      => (0 <= hs[h].recordsRead /\ hs[h].recordsRead <= hs[h].recordCount)

\* C26 as stated: after every read, scan step and append the cursor lies in
\* 0..recordCount, and one readRecords(maxCount) call returns at most
\* min(maxCount, recordCount - cursor) records, taken before the call.
C26_AsStated ==
  [][(last'.op \in {"read", "scan", "append"} /\ handles[last'.h].recordCount >= 0)
     => /\ CursorInRange(handles')
        /\ last'.op \in {"read", "scan"} =>
             Len(last'.out) <= Min(last'.n, handles[last'.h].recordCount
                                             - handles[last'.h].recordsRead)]_vars

\* C26: after every read, scan step and append the cursor lies in
\* 0..recordCount, and one readRecords(maxCount) call returns at most
\* max(0, min(maxCount, recordCount - cursor)) records, taken before the
\* call: none when maxCount is negative.
C26_CursorInRange ==
  [][(last'.op \in {"read", "scan", "append"} /\ handles[last'.h].recordCount >= 0)
     => /\ CursorInRange(handles')
        /\ last'.op \in {"read", "scan"} =>
             Len(last'.out) <= Max(0, Min(last'.n, handles[last'.h].recordCount
                                                  - handles[last'.h].recordsRead))]_vars

\* a read asked for 100 records returned all the records of a full file and
\* left the cursor at recordCount
C26_Witness ==
  /\ last.op = "read" /\ last.ok /\ last.n = 100
  /\ handles[last.h].recordCount = MaxRecords
  /\ Len(last.out) = MaxRecords
  /\ handles[last.h].recordsRead = handles[last.h].recordCount

(***************************************************************************)
(* What reads and appends leave alone.                                     *)
(***************************************************************************)
\* the handle but for its cursor
SansCursor(hd) == [hd EXCEPT !.recordsRead = 0]

\* the handle but for its record count and date
SansCount(hd) == [hd EXCEPT !.recordCount = 0, !.stamp = "none"]

\* the header but for bytes 1..7 (the date and the record count)
HeaderRest(d) == <<d.exists, d.version, d.headerLength, d.recordLength, d.descs, d.memo>>

\* no byte that file d has before record boundary n differs in file e
SamePrefix(d, e, n) ==
  /\ \A p \in 1..Min(n, Len(d.slots)) : Len(e.slots) >= p /\ e.slots[p] = d.slots[p]
  /\ (Len(d.slots) < n /\ d.tail # <<>>)
       => IF Len(e.slots) = Len(d.slots) THEN e.tail = d.tail
          ELSE e.slots[Len(d.slots) + 1].mark = d.tail[1]

\* the record a read gives for a record the handle appended
AsStored(hd, d, record, zone) == DecodeRecord(hd, EncodeRecord(hd, d, record, zone).val).val

\* C27: a read or scan step changes nothing of the file and nothing of the
\* handle but the cursor; an append, whatever its outcome, changes nothing of
\* the handle but recordCount and the date, no byte of the header but the
\* date and the count, and no byte before the record boundary recordCount.
\* Hence a read of K or more records that follows a successful append of K
\* records made with the cursor at recordCount returns K records: the
\* appended ones, from their positions, in order, none flagged deleted.
C27_Frame ==
  [][/\ last'.op \in {"read", "scan"}
          => /\ disk' = disk
             /\ SansCursor(handles'[last'.h]) = SansCursor(handles[last'.h])
     /\ last'.op = "append"
          => /\ SansCount(handles'[last'.h]) = SansCount(handles[last'.h])
             /\ HeaderRest(disk') = HeaderRest(disk)
             /\ SamePrefix(disk, disk', handles[last'.h].recordCount)
     /\ (/\ last.op = "append" /\ last.ok
         /\ last'.op = "read" /\ last'.h = last.h /\ last'.n >= last.n
         /\ handles[last.h].recordsRead = handles[last.h].recordCount - last.n)
          => /\ last'.ok
             /\ Len(last'.out) = last.n
             /\ \A i \in 1..last.n :
                  /\ last'.out[i].pos = handles[last.h].recordsRead + i - 1
                  /\ ~last'.out[i].deleted
                  /\ last'.out[i].rec = AsStored(handles[last.h], disk, last.batch[i], tz)]_vars

\* a file held one record or more, the handle had read them all, a record was
\* appended and the next read returned that record alone
C27_Witness ==
  /\ last.op = "read" /\ last.ok /\ Len(last.out) = 1
  /\ hist.appended # <<>>
  /\ last.out[1].pos = handles[last.h].recordCount - 1
  /\ last.out[1].pos >= 1
  /\ last.out[1].rec = AsStored(handles[last.h], disk, hist.appended[Len(hist.appended)], tz)

CompleteRecords(d) ==
  IF d.recordLength = 1 /\ d.slots # <<>> /\ d.slots[Len(d.slots)].mark = EOFByte
  THEN Len(d.slots) - 1
  ELSE Len(d.slots)

\* the records of the batch are in the file, from boundary n on
BatchInFile(hd, d, e, records, zone) ==
  \A i \in 1..Len(records) :
    /\ Len(e.slots) >= hd.recordCount + i
    /\ e.slots[hd.recordCount + i] = EncodeRecord(hd, d, records[i], zone).val

\* C23: an append writes its records, then the count of the header, then its
\* date, then the end-of-file byte, and updates the handle last; so when a
\* write fails, at any step, the header counts no more records than are
\* whole in the file: the count has changed only with the whole batch in the
\* file, the date only with the count, the handle only with all of them.
C23_CountAfterRecords ==
  [][(last'.op = "append" /\ disk.exists /\ handles[last'.h].recordCount >= 0
      /\ disk.count <= CompleteRecords(disk))
     => /\ disk'.count <= CompleteRecords(disk')
        /\ disk'.count # disk.count
             => /\ disk'.count = handles[last'.h].recordCount + last'.n
                /\ BatchInFile(handles[last'.h], disk, disk', last'.batch, tz)
        /\ disk'.stamp # disk.stamp
             => disk'.count = handles[last'.h].recordCount + last'.n
        /\ handles' # handles
             => /\ last'.ok
                /\ disk'.count = handles'[last'.h].recordCount
                /\ disk'.stamp = "now"
                /\ FileLength(disk') >= disk'.headerLength
                                         + disk'.count * disk'.recordLength + 1]_vars

\* an append of two records failed at its second record, the first whole in
\* the file and the header still counting none of them
C23_Witness ==
  /\ last.op = "append" /\ ~last.ok /\ last.err = "io-failure" /\ last.n = 2
  /\ CompleteRecords(disk) = disk.count + 1
  /\ handles[last.h].recordCount = disk.count

\* C29: between the calls of the sole writer of a file the recordCount of the
\* handle is the count stored in the header, after an append that succeeded
\* and after one that failed, at whatever step.
C29_HandleMatchesHeader ==
  [][(last'.op = "append" /\ disk.exists
      /\ handles[last'.h].recordCount = disk.count)
     => handles'[last'.h].recordCount = disk'.count]_vars

(***************************************************************************)
(* Appends through two handles of one file.                                *)
(***************************************************************************)
\* C24: an append through a handle whose recordCount is N writes its b
\* records from record boundary N and sets the header count to N + b,
\* whatever another handle has appended since the handle was opened: when the
\* header counted N + a, the other handle's records from boundary N on are
\* overwritten and the count ends at N + b, not at N + a + b.
C24_StaleAppend ==
  [][(last'.op = "append" /\ last'.ok)
     => /\ disk'.count = handles[last'.h].recordCount + last'.n
        /\ handles'[last'.h].recordCount = disk'.count
        /\ BatchInFile(handles[last'.h], disk, disk', last'.batch, tz)
        /\ \A g \in Handles \ {last'.h} : handles'[g] = handles[g]
        /\ (disk.count > handles[last'.h].recordCount /\ last'.n > 0)
             => /\ disk'.count < disk.count + last'.n
                /\ disk'.slots[handles[last'.h].recordCount + 1]
                     = EncodeRecord(handles[last'.h], disk, last'.batch[1], tz).val]_vars

\* A and B held the file at the same count, A appended, then B appended as
\* many records: both handles and the header count the same number, one
\* batch fewer than was appended, and B's record lies where A's was
C24_Witness ==
  /\ handles["A"].open /\ handles["B"].open
  /\ last.op = "append" /\ last.ok /\ last.h = "B" /\ last.n >= 1
  /\ handles["A"].recordCount = disk.count
  /\ handles["B"].recordCount = disk.count
  /\ Len(hist.appended) = disk.count + last.n
  /\ hist.appended[Len(hist.appended) - last.n] # last.batch[last.n]
  /\ disk.slots[disk.count] = EncodeRecord(handles["B"], disk, last.batch[last.n], tz).val
====
